---- MODULE Spec2Model ----
(***************************************************************************)
(* A model of the Dyson Local integration (cmgrayb/ha-dyson):              *)
(*   - the config-entry lifecycle driven by DysonDeviceManager,            *)
(*     DysonConnectionHandler and DysonDiscoveryManager over hass.data,    *)
(*   - the vendored libdyson device factory,                                *)
(*   - the environmental_property sentinel mapping,                         *)
(*   - the Device Session connection state machine,                         *)
(*   - the commands, the message dispatch and the listeners of one session, *)
(*   - the Message Codec, and the Discovery Resolver on its own,            *)
(*   - the config flow with its connection attempt,                         *)
(*   - the entity hooks, the environmental sensors, the climate entity and  *)
(*     the unique ids of the entities of one device.                        *)
(*   - the ProgressiveDiscoveryManager, the config entries with their      *)
(*     flows and reauthentication, and get_platforms_for_device.           *)
(* Coroutines are modelled with one program position per task; a step runs  *)
(* from one await to the next, so tasks interleave exactly where the event  *)
(* loop can switch between them; a job handed to the executor is a step of  *)
(* its own.                                                                 *)
(***************************************************************************)
EXTENDS Integers, FiniteSets, Sequences, TLC

\* ------------------------------------------------------------------ bounds
\* Entry setups Home Assistant starts in one run; every setup creates at most
\* one DysonDiscovery and adds at most one to "discovery_count", so this
\* bounds both.
MaxSetups == 2

\* Config entries; the serial of an entry's device is the entry's name.
Entries == {"e1", "e2"}
\* Network addresses a device may be announced, cached or configured at.
IPs == {"ip1"}
\* Python's None for an address / an absent dictionary key.
NoIP == "none"
\* The coroutine runners of _async_setup_entry_callback: each entry's own
\* setup task, and the discovery service's listener thread ("zc").
Runners == Entries \cup {"zc"}
DiscIds == 1..MaxSetups

VARIABLES
    \* ---- hass.data[DOMAIN]
    devices,      \* DATA_DEVICES: entry ids present
    coords,       \* DATA_COORDINATORS: entry ids present
    disc,         \* DATA_DISCOVERY: 0 is None, else the DysonDiscovery object
    count,        \* "discovery_count"
    device_ips,   \* "device_ips": serial -> cached address
    preserved,    \* "preserved_discovered": serial -> address
    \* ---- DysonDiscovery objects
    nDisc,        \* objects created so far
    dstate,       \* per object: absent, new, running, stopped
    discovered,   \* per object: _discovered, serial -> address
    registered,   \* per object: serials with a registered callback
    \* ---- config entries and their tasks
    host,         \* entry.data[CONF_HOST]
    life,         \* not_loaded, setup, loaded, unloading
    pc,           \* position of the entry's setup / unload coroutine
    result,       \* what the last setup / unload of the entry returned or raised
    fb,           \* why the static-host attempt of this setup fell back, if it did
    dref,         \* the coroutine's local variable `discovery`
    cb,           \* per runner: the _async_setup_entry_callback it is running
    nSetup,       \* setups started so far
    conn,         \* per entry: the Device Session's ConnectionState
    restored,     \* per entry: the address its setup took out of preserved_discovered for its serial
    \* ---- the pure functions and the Device Session on their own
    factory,      \* one call of the device factory: inputs, position, result
    env,          \* a climate entity's raw readings and the last property read
    session,      \* one Device Session: state, host, call in progress, listeners
    store,        \* the data of one Device Session: snapshots, pending commands, dispatch
    resolver,     \* one Discovery Resolver: records, registrations, callbacks made
    codec,        \* one decode of a state message: the inputs and the snapshot it gives
    \* ---- the config flow and the entities on their own
    flow,         \* one config flow: the step, the connection attempt, the result
    entity,       \* one entity and the listeners of its device
    sensor,       \* an environmental sensor: the raw reading and what the entity reports
    climate,      \* a climate entity: the device flags and the modes it reports
    ids,          \* the unique ids of the entities of one device
    prog,         \* one ProgressiveDiscoveryManager and the listeners of its device
    reg,          \* the config entries of the domain and the flow that is changing them
    platforms     \* one call of get_platforms_for_device: the device and the list returned

hassVars == <<devices, coords, disc, count, device_ips, preserved>>
discVars == <<nDisc, dstate, discovered, registered>>
taskVars == <<host, life, pc, result, fb, dref, cb, nSetup, conn, restored>>
lifeVars == <<hassVars, discVars, taskVars>>

coreVars == <<factory, env, session, store, resolver, codec>>
haVars == <<flow, entity, sensor, climate, ids>>
mgrVars == <<prog, reg, platforms>>
pureVars == <<coreVars, haVars, mgrVars>>

vars == <<lifeVars, pureVars>>

Idle == [pc |-> "idle", e |-> "none", h |-> NoIP, late |-> FALSE]

NoAddresses == [s \in Entries |-> NoIP]

\* ------------------------------------------------- Device Session (state)
ConnectionState == {"Disconnected", "Connecting", "Connected", "Failed"}

is_connected(st) == st = "Connected"

\* connect(host) has been called: the session is connecting.
session_connecting(st) == "Connecting"

\* Whether a connect whose transport outcome is `ok` returns normally: a
\* disconnect in the meantime aborts it.
connect_ok(st, ok) == ok /\ st \in {"Connecting", "Connected"}

\* A failed connect that leaves the session connecting.
session_connected_stuck(st, ok) == IF connect_ok(st, ok) THEN "Connected" ELSE st

\* A disconnect that leaves the connection state as it was.
session_disconnect_keep(st) == st

\* connect(host) returns or raises.
session_connected(st, ok) == IF connect_ok(st, ok) THEN "Connected" ELSE IF st = "Connecting" THEN "Failed" ELSE st

session_disconnect(st) == "Disconnected"

\* ------------------------------------------------------------ initial state
\* __init__.py async_setup: empty dictionaries, no discovery, count 0.  An
\* entry either has a static host or none (discovery).
InitLife ==
    /\ devices = {}
    /\ coords = {}
    /\ disc = 0
    /\ count = 0
    /\ device_ips = NoAddresses
    /\ preserved = NoAddresses
    /\ restored = NoAddresses
    /\ nDisc = 0
    /\ dstate = [g \in DiscIds |-> "absent"]
    /\ discovered = [g \in DiscIds |-> NoAddresses]
    /\ registered = [g \in DiscIds |-> {}]
    /\ host \in [Entries -> {NoIP, "ip1"}]
    /\ host["e1"] = NoIP
    /\ nSetup = 0
    /\ life = [e \in Entries |-> "not_loaded"]
    /\ pc = [e \in Entries |-> "idle"]
    /\ result = [e \in Entries |-> "none"]
    /\ fb = [e \in Entries |-> "no"]
    /\ dref = [e \in Entries |-> 0]
    /\ cb = [r \in Runners |-> Idle]
    /\ conn = [e \in Entries |-> "Disconnected"]

\* ---------------------------------------------- platform setup failure
\* A store that keeps the entry.
not_popped(store_, e) == store_

\* hass.data[DOMAIN][...].pop(entry.entry_id, None)
popped(store_, e) == store_ \ {e}

\* ------------------------------------- _async_setup_entry_callback (steps)
\* The callback is entered: it reads is_connected and hands disconnect or
\* connect to the executor.
callback_begin(r, e, h, late) ==
    /\ cb' = [cb EXCEPT ![r] = [pc |-> IF is_connected(conn[e]) THEN "disc" ELSE "call", e |-> e, h |-> h, late |-> late]]
    /\ conn' = conn

\* The callback returns val ("T" or "F") to whoever waits on its future; the
\* listener thread is free again at once.
callback_return(r, val) ==
    cb' = [cb EXCEPT ![r] = IF r = "zc" THEN Idle ELSE [@ EXCEPT !.pc = val]]

\* The awaited disconnect is done (an exception is swallowed); connect is
\* handed to the executor.
CallbackDisconnected(r) ==
    /\ cb[r].pc = "disc"
    /\ conn' = [conn EXCEPT ![cb[r].e] = session_disconnect(@)]
    /\ cb' = [cb EXCEPT ![r].pc = "call"]
    /\ UNCHANGED <<pureVars, restored, nSetup, hassVars, discVars, host, life, pc, result, fb, dref>>

\* The executor runs the connect job: device.connect(host) is called.
CallbackConnectCalled(r) ==
    /\ cb[r].pc = "call"
    /\ conn' = [conn EXCEPT ![cb[r].e] = session_connecting(@)]
    /\ cb' = [cb EXCEPT ![r].pc = "conn"]
    /\ UNCHANGED <<pureVars, restored, nSetup, hassVars, discVars, host, life, pc, result, fb, dref>>

\* The awaited connect returned or raised DysonException.
CallbackConnected(r) ==
    /\ cb[r].pc = "conn"
    /\ \E ok \in BOOLEAN :
        LET e == cb[r].e IN
        /\ conn' = [conn EXCEPT ![e] = session_connected(@, ok)]
        /\ IF connect_ok(conn[e], ok)
           THEN /\ device_ips' = [device_ips EXCEPT ![e] = cb[r].h]
                /\ devices' = devices \cup {e}
                /\ coords' = coords \cup {e}
                /\ cb' = [cb EXCEPT ![r].pc = "plat"]
           ELSE /\ callback_return(r, "F")
                /\ UNCHANGED <<device_ips, devices, coords>>
    /\ UNCHANGED <<pureVars, restored, nSetup, disc, count, preserved, discVars, host, life, pc, result, fb, dref>>

\* async_forward_entry_setups returned or raised.
CallbackPlatforms(r) ==
    /\ cb[r].pc = "plat"
    /\ \E ok \in BOOLEAN :
        LET e == cb[r].e IN
        IF ok
        THEN /\ callback_return(r, "T")
             /\ UNCHANGED <<devices, coords, conn>>
        ELSE /\ devices' = popped(devices, e)
             /\ coords' = popped(coords, e)
             /\ conn' = [conn EXCEPT ![e] = session_disconnect(@)]
             /\ callback_return(r, "F")
    /\ UNCHANGED <<pureVars, restored, nSetup, disc, count, device_ips, preserved, discVars, host, life, pc, result, fb, dref>>

\* ----------------------------------------------------------------- setup
\* The setup coroutine of entry e ends: r is True or the exception raised.
SetupReturn(e, r) ==
    /\ life' = [life EXCEPT ![e] = IF r = "True" THEN "loaded" ELSE "not_loaded"]
    /\ pc' = [pc EXCEPT ![e] = "idle"]
    /\ result' = [result EXCEPT ![e] = r]

\* DysonDeviceManager.async_setup_entry up to the first await of
\* _prepare_device; get_device returning None raises ValueError.
SetupBegin(e) ==
    /\ life[e] = "not_loaded"
    /\ pc[e] = "idle"
    /\ nSetup < MaxSetups
    /\ nSetup' = nSetup + 1
    /\ fb' = [fb EXCEPT ![e] = "no"]
    /\ \/ /\ life' = [life EXCEPT ![e] = "setup"]
          /\ pc' = [pc EXCEPT ![e] = "prep"]
          /\ result' = [result EXCEPT ![e] = "none"]
       \/ /\ result' = [result EXCEPT ![e] = "ValueError"]
          /\ UNCHANGED <<life, pc>>
    /\ restored' = [restored EXCEPT ![e] = NoIP]
    /\ UNCHANGED <<pureVars, hassVars, discVars, host, dref, cb, conn>>

\* The device was disconnected before setup; the coordinator is created; the
\* entry goes the static-host or the discovery way.
PrepareDone(e) ==
    /\ pc[e] = "prep"
    /\ conn' = [conn EXCEPT ![e] = session_disconnect(@)]
    /\ pc' = [pc EXCEPT ![e] = IF host[e] # NoIP THEN "static" ELSE "cwd"]
    /\ UNCHANGED <<pureVars, restored, nSetup, hassVars, discVars, host, life, result, fb, dref, cb>>

\* connect_with_static_host: setup_entry(host, is_discovery=False) starts in
\* the executor: it reads is_connected and disconnects a connected device.
StaticBegin(e) ==
    /\ pc[e] = "static"
    /\ conn' = [conn EXCEPT ![e] = IF is_connected(@) THEN session_disconnect(@) ELSE @]
    /\ pc' = [pc EXCEPT ![e] = "st_call"]
    /\ UNCHANGED <<pureVars, restored, nSetup, hassVars, discVars, host, life, result, fb, dref, cb>>

\* The executor thread goes on: device.connect(host) is called.
StaticConnectCalled(e) ==
    /\ pc[e] = "st_call"
    /\ conn' = [conn EXCEPT ![e] = session_connecting(@)]
    /\ pc' = [pc EXCEPT ![e] = "st_conn"]
    /\ UNCHANGED <<pureVars, restored, nSetup, hassVars, discVars, host, life, result, fb, dref, cb>>

\* device.connect(host) returned (the address is cached, the device stored,
\* the platforms forwarded) or raised DysonException (ConfigEntryNotReady,
\* caught by connect_with_static_host: fall back to Zeroconf discovery).
StaticConnected(e) ==
    /\ pc[e] = "st_conn"
    /\ \E ok \in BOOLEAN :
        /\ conn' = [conn EXCEPT ![e] = session_connected(@, ok)]
        /\ IF connect_ok(conn[e], ok)
           THEN /\ device_ips' = [device_ips EXCEPT ![e] = host[e]]
                /\ devices' = devices \cup {e}
                /\ coords' = coords \cup {e}
                /\ pc' = [pc EXCEPT ![e] = "st_plat"]
                /\ UNCHANGED fb
           ELSE /\ fb' = [fb EXCEPT ![e] = "connect"]
                /\ pc' = [pc EXCEPT ![e] = "cwd"]
                /\ UNCHANGED <<device_ips, devices, coords>>
    /\ UNCHANGED <<pureVars, restored, nSetup, disc, count, preserved, discVars, host, life, result, dref, cb>>

\* _setup_platforms returned True (setup returns True) or failed: the entry
\* is removed again, the device disconnected, ConfigEntryNotReady raised and
\* caught by connect_with_static_host.
StaticPlatforms(e) ==
    /\ pc[e] = "st_plat"
    /\ \E ok \in BOOLEAN :
        IF ok
        THEN /\ SetupReturn(e, "True")
             /\ UNCHANGED <<devices, coords, conn, fb>>
        ELSE /\ devices' = popped(devices, e)
             /\ coords' = popped(coords, e)
             /\ conn' = [conn EXCEPT ![e] = session_disconnect(@)]
             /\ fb' = [fb EXCEPT ![e] = "platforms"]
             /\ pc' = [pc EXCEPT ![e] = "cwd"]
             /\ UNCHANGED <<life, result>>
    /\ UNCHANGED <<pureVars, restored, nSetup, disc, count, device_ips, preserved, discVars, host, dref, cb>>
\* ------------------------------------------------- connect_with_discovery
\* _restore_preserved_devices then _increment_discovery_count on object g,
\* in the setup of entry e.
restore_and_increment(e, g) ==
    /\ restored' = [restored EXCEPT ![e] = preserved[e]]
    /\ discovered' = [discovered EXCEPT ![g] = [s \in Entries |-> IF preserved[s] # NoIP THEN preserved[s] ELSE @[s]]]
    /\ preserved' = NoAddresses
    /\ count' = count + 1

\* _ensure_discovery_service: a new DysonDiscovery is stored in
\* DATA_DISCOVERY before start_discovery is awaited; an existing one is used
\* without any await, so restoring and counting follow in the same step.
EnsureDiscovery(e) ==
    /\ pc[e] = "cwd"
    /\ \/ /\ disc = 0
          /\ nDisc' = nDisc + 1
          /\ disc' = nDisc + 1
          /\ dstate' = [dstate EXCEPT ![nDisc + 1] = "new"]
          /\ dref' = [dref EXCEPT ![e] = nDisc + 1]
          /\ pc' = [pc EXCEPT ![e] = "starting"]
          /\ UNCHANGED <<discovered, preserved, count, restored>>
       \/ /\ disc # 0
          /\ dref' = [dref EXCEPT ![e] = disc]
          /\ restore_and_increment(e, disc)
          /\ pc' = [pc EXCEPT ![e] = "registering"]
          /\ UNCHANGED <<nDisc, disc, dstate>>
    /\ UNCHANGED <<pureVars, nSetup, devices, coords, device_ips, registered, host, life, result, fb, cb, conn>>

\* start_discovery returned (then restore, count, and register_device is
\* handed to the executor) or raised: on the static-host fallback the
\* exception is caught and the cloud API is tried, otherwise setup fails.
StartDone(e) ==
    /\ pc[e] = "starting"
    /\ \/ /\ dstate' = [dstate EXCEPT ![dref[e]] = "running"]
          /\ restore_and_increment(e, dref[e])
          /\ pc' = [pc EXCEPT ![e] = "registering"]
          /\ UNCHANGED <<life, result>>
       \/ /\ IF fb[e] # "no"
             THEN pc' = [pc EXCEPT ![e] = "cloud"] /\ UNCHANGED <<life, result>>
             ELSE SetupReturn(e, "Error")
          /\ UNCHANGED <<dstate, discovered, preserved, count, restored>>
    /\ UNCHANGED <<pureVars, nSetup, devices, coords, disc, device_ips, nDisc, registered, host, fb, dref, cb, conn>>

\* discovery.register_device(device, setup_entry) runs in the executor: the
\* callback is registered, and called at once with an address already seen.
RegisterDevice(e) ==
    /\ pc[e] = "registering"
    /\ registered' = [registered EXCEPT ![dref[e]] = @ \cup {e}]
    /\ IF discovered[dref[e]][e] # NoIP
       THEN /\ callback_begin(e, e, discovered[dref[e]][e], FALSE)
            /\ pc' = [pc EXCEPT ![e] = "cb_reg"]
       ELSE /\ pc' = [pc EXCEPT ![e] = "sleep"]
            /\ UNCHANGED <<cb, conn>>
    /\ UNCHANGED <<pureVars, restored, nSetup, hassVars, nDisc, dstate, discovered, host, life, result, fb, dref>>

\* register_device is done; the coroutine sleeps 0.5 s.
RegisterReturned(e) ==
    /\ pc[e] = "cb_reg"
    /\ cb[e].pc \in {"T", "F"}
    /\ cb' = [cb EXCEPT ![e] = Idle]
    /\ pc' = [pc EXCEPT ![e] = "sleep"]
    /\ UNCHANGED <<pureVars, restored, nSetup, hassVars, discVars, host, life, result, fb, dref, conn>>

\* connect_with_discovery returns True without a further attempt.
give_up(e) ==
    /\ SetupReturn(e, "True")
    /\ cb' = [cb EXCEPT ![e] = Idle]
    /\ UNCHANGED conn

\* _try_cached_or_preserved_connection from the preserved-data check on:
\* try the preserved address of the serial, or give up and return True.
try_preserved(e) ==
    IF preserved[e] # NoIP
    THEN /\ callback_begin(e, e, preserved[e], FALSE)
         /\ pc' = [pc EXCEPT ![e] = "cb_pres"]
         /\ UNCHANGED <<life, result>>
    ELSE give_up(e)

\* After the sleep: a stored device ends connect_with_discovery; otherwise
\* the cached address is tried, then the preserved one.
SleepDone(e) ==
    /\ pc[e] = "sleep"
    /\ IF e \in devices
       THEN SetupReturn(e, "True") /\ UNCHANGED <<cb, conn>>
       ELSE IF device_ips[e] # NoIP
            THEN /\ callback_begin(e, e, device_ips[e], FALSE)
                 /\ pc' = [pc EXCEPT ![e] = "cb_cached"]
                 /\ UNCHANGED <<life, result>>
            ELSE try_preserved(e)
    /\ UNCHANGED <<pureVars, restored, nSetup, hassVars, discVars, host, fb, dref>>

\* The cached-address attempt returned.
CachedReturned(e) ==
    /\ pc[e] = "cb_cached"
    /\ cb[e].pc \in {"T", "F"}
    /\ IF cb[e].pc = "T"
       THEN SetupReturn(e, "True") /\ cb' = [cb EXCEPT ![e] = Idle] /\ UNCHANGED conn
       ELSE try_preserved(e)
    /\ UNCHANGED <<pureVars, restored, nSetup, hassVars, discVars, host, fb, dref>>

\* The preserved-address attempt returned: connect_with_discovery returns
\* True either way.
PreservedReturned(e) ==
    /\ pc[e] = "cb_pres"
    /\ cb[e].pc \in {"T", "F"}
    /\ SetupReturn(e, "True")
    /\ cb' = [cb EXCEPT ![e] = Idle]
    /\ UNCHANGED <<pureVars, restored, nSetup, hassVars, discVars, host, fb, dref, conn>>

\* ------------------------------------------------- _try_cloud_api_refresh
\* No cloud account, no device or no address there: ConfigEntryNotReady.
\* Otherwise the entry's host is updated and _setup_entry_with_host starts
\* in the executor.
CloudBegin(e) ==
    /\ pc[e] = "cloud"
    /\ \/ /\ SetupReturn(e, "ConfigEntryNotReady")
          /\ UNCHANGED <<host, conn>>
       \/ \E ip \in IPs :
          /\ host' = [host EXCEPT ![e] = ip]
          /\ conn' = [conn EXCEPT ![e] = IF is_connected(@) THEN session_disconnect(@) ELSE @]
          /\ pc' = [pc EXCEPT ![e] = "cl_call"]
          /\ UNCHANGED <<life, result>>
    /\ UNCHANGED <<pureVars, restored, nSetup, hassVars, discVars, fb, dref, cb>>

\* _setup_entry_with_host goes on in its thread: device.connect(host) is
\* called.
CloudConnectCalled(e) ==
    /\ pc[e] = "cl_call"
    /\ conn' = [conn EXCEPT ![e] = session_connecting(@)]
    /\ pc' = [pc EXCEPT ![e] = "cl_conn"]
    /\ UNCHANGED <<pureVars, restored, nSetup, hassVars, discVars, host, life, result, fb, dref, cb>>

\* device.connect(host) returned (address cached, device stored, platforms
\* forwarded) or raised DysonException: ConfigEntryNotReady.
CloudConnected(e) ==
    /\ pc[e] = "cl_conn"
    /\ \E ok \in BOOLEAN :
        /\ conn' = [conn EXCEPT ![e] = session_connected(@, ok)]
        /\ IF connect_ok(conn[e], ok)
           THEN /\ device_ips' = [device_ips EXCEPT ![e] = host[e]]
                /\ devices' = devices \cup {e}
                /\ coords' = coords \cup {e}
                /\ pc' = [pc EXCEPT ![e] = "cl_plat"]
                /\ UNCHANGED <<life, result>>
           ELSE /\ SetupReturn(e, "ConfigEntryNotReady")
                /\ UNCHANGED <<device_ips, devices, coords>>
    /\ UNCHANGED <<pureVars, restored, nSetup, disc, count, preserved, discVars, host, fb, dref, cb>>

CloudPlatforms(e) ==
    /\ pc[e] = "cl_plat"
    /\ \E ok \in BOOLEAN :
        IF ok
        THEN /\ SetupReturn(e, "True")
             /\ UNCHANGED <<devices, coords, conn>>
        ELSE /\ devices' = popped(devices, e)
             /\ coords' = popped(coords, e)
             /\ conn' = [conn EXCEPT ![e] = session_disconnect(@)]
             /\ SetupReturn(e, "ConfigEntryNotReady")
    /\ UNCHANGED <<pureVars, restored, nSetup, disc, count, device_ips, preserved, discVars, host, fb, dref, cb>>
\* ---------------------------------- DysonDeviceManager.async_unload_entry
\* The unload coroutine of entry e ends (it only ever returns True).
UnloadReturn(e, r) ==
    /\ life' = [life EXCEPT ![e] = "not_loaded"]
    /\ pc' = [pc EXCEPT ![e] = "idle"]
    /\ result' = [result EXCEPT ![e] = r]

\* _decrement_discovery_count
decremented(c) == IF c - 1 > 0 THEN c - 1 ELSE 0

\* An early return that counts the entry out of the discovery users first.
counted_out(c) == decremented(c)

\* The early return of async_unload_entry: handle_unload_cleanup is not
\* reached and discovery_count stays as it is.
not_decremented(c) == c

\* An entry that is not in DATA_DEVICES is done at once; otherwise the
\* platforms' unload is awaited.
UnloadBegin(e) ==
    /\ life[e] = "loaded"
    /\ pc[e] = "idle"
    /\ IF e \notin devices
       THEN /\ UnloadReturn(e, "unload_noop")
            /\ count' = not_decremented(count)
       ELSE /\ life' = [life EXCEPT ![e] = "unloading"]
            /\ pc' = [pc EXCEPT ![e] = "u_plat"]
            /\ result' = [result EXCEPT ![e] = "none"]
            /\ UNCHANGED count
    /\ UNCHANGED <<pureVars, restored, nSetup, devices, coords, disc, device_ips, preserved, discVars, host, fb, dref, cb, conn>>

\* _cleanup_coordinator: the coordinator is popped, its shutdown awaited.
cleanup_coordinator(e) ==
    /\ coords' = coords \ {e}
    /\ pc' = [pc EXCEPT ![e] = "u_coord"]

\* The platforms are unloaded (or the error is swallowed).  An entry without
\* host runs handle_unload_cleanup: the count is decremented, the discovered
\* addresses are preserved, and with a count of 0 stop_discovery is awaited.
UnloadPlatformsDone(e) ==
    /\ pc[e] = "u_plat"
    /\ IF host[e] = NoIP
       THEN /\ count' = decremented(count)
            /\ IF disc # 0
               THEN /\ preserved' = IF discovered[disc] # NoAddresses THEN discovered[disc] ELSE preserved
                    /\ IF decremented(count) <= 0
                       THEN /\ dref' = [dref EXCEPT ![e] = disc]
                            /\ pc' = [pc EXCEPT ![e] = "u_stop"]
                            /\ UNCHANGED coords
                       ELSE /\ cleanup_coordinator(e)
                            /\ UNCHANGED dref
               ELSE /\ cleanup_coordinator(e)
                    /\ UNCHANGED <<preserved, dref>>
       ELSE /\ cleanup_coordinator(e)
            /\ UNCHANGED <<count, preserved, dref>>
    /\ UNCHANGED <<pureVars, restored, nSetup, devices, disc, device_ips, discVars, host, life, result, fb, cb, conn>>

\* _stop_discovery_service after its await: the service is stopped,
\* DATA_DISCOVERY is None and the count 0; then the coordinator is popped.
UnloadStopDone(e) ==
    /\ pc[e] = "u_stop"
    /\ dstate' = [dstate EXCEPT ![dref[e]] = "stopped"]
    /\ disc' = 0
    /\ count' = 0
    /\ cleanup_coordinator(e)
    /\ UNCHANGED <<pureVars, restored, nSetup, devices, device_ips, preserved, nDisc, discovered, registered, host, life, result, fb, dref, cb, conn>>

\* _cleanup_device: the device is popped and its disconnect awaited.
UnloadCoordinatorDone(e) ==
    /\ pc[e] = "u_coord"
    /\ devices' = devices \ {e}
    /\ pc' = [pc EXCEPT ![e] = "u_disc"]
    /\ UNCHANGED <<pureVars, restored, nSetup, coords, disc, count, device_ips, preserved, discVars, host, life, result, fb, dref, cb, conn>>

\* The device is disconnected (or the error is swallowed); after the pauses
\* the unload returns True.
UnloadDisconnectDone(e) ==
    /\ pc[e] = "u_disc"
    /\ conn' = [conn EXCEPT ![e] = session_disconnect(@)]
    /\ UnloadReturn(e, "unloaded")
    /\ UNCHANGED <<pureVars, restored, nSetup, hassVars, discVars, host, fb, dref, cb>>

\* -------------------------------------------------- the discovery service
\* A running service sees serial s announced at a new address: it records the
\* address and, for a registered serial, its listener thread calls the
\* callback.  `late` marks a callback for an entry whose unload has
\* completed and that has not been set up since.
Announce(g, s, ip) ==
    /\ dstate[g] = "running"
    /\ discovered[g][s] # ip
    /\ discovered' = [discovered EXCEPT ![g][s] = ip]
    /\ IF s \in registered[g]
       THEN /\ cb["zc"].pc = "idle"
            /\ callback_begin("zc", s, ip, life[s] = "not_loaded" /\ result[s] \in {"unloaded", "unload_noop"})
       ELSE UNCHANGED <<cb, conn>>
    /\ UNCHANGED <<pureVars, restored, nSetup, hassVars, nDisc, dstate, registered, host, life, pc, result, fb, dref>>

NextLife ==
    \/ \E e \in Entries :
        \/ SetupBegin(e)
        \/ PrepareDone(e)
        \/ StaticBegin(e)
        \/ StaticConnectCalled(e)
        \/ StaticConnected(e)
        \/ StaticPlatforms(e)
        \/ EnsureDiscovery(e)
        \/ StartDone(e)
        \/ RegisterDevice(e)
        \/ RegisterReturned(e)
        \/ SleepDone(e)
        \/ CachedReturned(e)
        \/ PreservedReturned(e)
        \/ CloudBegin(e)
        \/ CloudConnectCalled(e)
        \/ CloudConnected(e)
        \/ CloudPlatforms(e)
        \/ UnloadBegin(e)
        \/ UnloadPlatformsDone(e)
        \/ UnloadStopDone(e)
        \/ UnloadCoordinatorDone(e)
        \/ UnloadDisconnectDone(e)
    \/ \E r \in Runners :
        \/ CallbackDisconnected(r)
        \/ CallbackConnectCalled(r)
        \/ CallbackConnected(r)
        \/ CallbackPlatforms(r)
    \/ \E g \in DiscIds, s \in Entries, ip \in IPs : Announce(g, s, ip)

\* ------------------------------------------- vendor/libdyson device factory
\* DEVICE_TYPE_360_EYE, DEVICE_TYPE_360_HEURIST, DEVICE_TYPE_360_VIS_NAV
VacuumTypes == {"N223", "276", "277"}

\* The device types _create_device_static has a class for.
StaticTypes ==
    VacuumTypes \cup {"469", "475", "455", "438", "438K", "438E", "438M", "520",
                      "527", "527E", "527K", "527M", "358", "358K", "358E", "664"}

\* Device-type strings given to the factory: the mapped ones, DEVICE_TYPE_739
\* (a constant without a class) and a string that is no constant at all.
DeviceTypes == StaticTypes \cup {"739", "999"}

\* A static table that gives every unlisted type a default class.
create_device_static_default(device_type) ==
    IF device_type \in VacuumTypes THEN "Dyson360Eye"
    ELSE IF device_type \in {"469", "475", "455"} THEN "DysonPureCoolLink"
    ELSE "DysonPureCool"

\* _create_device_static: the class instantiated for a device type, or None.
create_device_static(device_type) ==
    IF device_type = "N223" THEN "Dyson360Eye"
    ELSE IF device_type = "276" THEN "Dyson360Heurist"
    ELSE IF device_type = "277" THEN "Dyson360VisNav"
    ELSE IF device_type \in {"469", "475"} THEN "DysonPureCoolLink"
    ELSE IF device_type = "455" THEN "DysonPureHotCoolLink"
    ELSE IF device_type \in {"438", "438K", "438E", "438M"} THEN "DysonBasicPurifierFanWithOscillation"
    ELSE IF device_type \in {"520"} THEN "DysonPureCool"
    ELSE IF device_type \in {"527", "527E", "527K", "527M"} THEN "DysonPureHotCool"
    ELSE IF device_type \in {"358", "358K", "358E"} THEN "DysonPurifierHumidifyCool"
    ELSE IF device_type \in {"664"} THEN "DysonBigQuiet"
    ELSE "None"

\* What one call of get_device_with_capability_discovery may do: raise,
\* return None, or return the fan / purifier subtype whose fields the device
\* reported.
CapabilityDiscoveryOutcomes ==
    {"raise", "None", "DysonPureCoolLink", "DysonPureHotCoolLink",
     "DysonBasicPurifierFanWithOscillation", "DysonPureCool", "DysonPureHotCool",
     "DysonPurifierHumidifyCool", "DysonBigQuiet"}

\* Whether an outcome of capability discovery is a device (truthy, no raise).
is_device(outcome) == outcome \notin {"raise", "None"}

\* get_device without the fallback to the static table.
get_device_no_fallback(device_type, dynamic_device) ==
    IF device_type \in VacuumTypes
    THEN create_device_static(device_type)
    ELSE IF is_device(dynamic_device) THEN dynamic_device ELSE "None"

\* get_device, dynamic_device being what its capability discovery call does.
get_device(device_type, dynamic_device) ==
    IF device_type \in VacuumTypes
    THEN create_device_static(device_type)
    ELSE IF is_device(dynamic_device)
         THEN dynamic_device
         ELSE create_device_static(device_type)

\* get_device_with_progressive_discovery: with the option enabled, device is
\* what the progressive-mode capability discovery call does; dynamic_device
\* is what the call inside the get_device fallback does.
get_device_with_progressive_discovery(device_type, progressive_enabled, device, dynamic_device) ==
    IF progressive_enabled /\ is_device(device)
    THEN device
    ELSE get_device(device_type, dynamic_device)

FactoryIdle ==
    [pc |-> "idle", device_type |-> "999", progressive |-> FALSE,
     device |-> "None", dynamic_device |-> "None", out |-> "None"]

\* A call about to be made: any device type, option value and discovery
\* behaviour.
FactoryInputs ==
    [pc : {"input"}, device_type : DeviceTypes, progressive : BOOLEAN,
     device : CapabilityDiscoveryOutcomes,
     dynamic_device : CapabilityDiscoveryOutcomes, out : {"None"}]

FactoryGetDevice ==
    /\ factory.pc = "input"
    /\ factory' = [factory EXCEPT !.pc = "get_device",
                                  !.out = get_device(factory.device_type, factory.dynamic_device)]
    /\ UNCHANGED <<lifeVars, mgrVars, haVars, env, session, store, resolver, codec>>

FactoryProgressive ==
    /\ factory.pc = "input"
    /\ factory' = [factory EXCEPT !.pc = "progressive",
                                  !.out = get_device_with_progressive_discovery(
                                              factory.device_type, factory.progressive,
                                              factory.device, factory.dynamic_device)]
    /\ UNCHANGED <<lifeVars, mgrVars, haVars, env, session, store, resolver, codec>>

\* ------------------------------------------------- environmental_property
\* Raw readings range over -MaxRaw .. MaxRaw.
MaxRaw == 4
RawValues == (0 - MaxRaw)..MaxRaw

ENVIRONMENTAL_OFF == -1
ENVIRONMENTAL_INIT == -2
ENVIRONMENTAL_FAIL == -3

STATE_OFF == "off"
STATE_INIT == "init"
STATE_FAIL == "fail"

\* environmental_property with init and fail exchanged.
environmental_property_swapped(value) ==
    IF value = ENVIRONMENTAL_OFF THEN STATE_OFF
    ELSE IF value = ENVIRONMENTAL_INIT THEN STATE_FAIL
    ELSE IF value = ENVIRONMENTAL_FAIL THEN STATE_INIT
    ELSE value

\* environmental_property.__get__ applied to the wrapped getter's value.
environmental_property(value) ==
    IF value = ENVIRONMENTAL_OFF THEN STATE_OFF
    ELSE IF value = ENVIRONMENTAL_INIT THEN STATE_INIT
    ELSE IF value = ENVIRONMENTAL_FAIL THEN STATE_FAIL
    ELSE value

\* The device attributes DysonClimateEntity reads through
\* environmental_property (_current_temperature_kelvin, current_humidity).
EnvFields == {"temperature", "humidity"}

EnvIdle == [temperature |-> 0, humidity |-> 0, field |-> "none", out |-> "none"]

EnvInputs ==
    [temperature : RawValues, humidity : RawValues, field : {"none"}, out : {"none"}]

\* An entity property is read: the getter's value goes through
\* environmental_property.
EnvRead(f) ==
    /\ env.field = "none"
    /\ env' = [env EXCEPT !.field = f, !.out = environmental_property(env[f])]
    /\ UNCHANGED <<lifeVars, mgrVars, haVars, factory, session, store, resolver, codec>>

\* The device reports a new raw value for one attribute.
EnvReport(f, v) ==
    /\ env.field # "none"
    /\ env[f] # v
    /\ env' = [env EXCEPT ![f] = v, !.field = "none", !.out = "none"]
    /\ UNCHANGED <<lifeVars, mgrVars, haVars, factory, session, store, resolver, codec>>

\* ---------------------------------------------------------- Device Session
\* One session per device (the device of each entry), taken on its own.
\* Addresses a session is connected to, and the message listeners.
SessionHosts == {"ip1", "ip2"}
Listeners == {"l1", "l2"}

\* A transport error that marks even a disconnected session as failed.
transport_error_any(st) == "Failed"

\* A transport-level disconnect: Connecting and Connected become Failed.
transport_error(st) == IF st \in {"Connecting", "Connected"} THEN "Failed" ELSE st

\* `last` is the outcome of the last call made on the session: none,
\* connecting (a connect is in progress), connect_ok, connect_raised,
\* disconnect, disconnect_again (a disconnect of a disconnected session), or
\* dropped (the transport of an established connection was lost).
NewSession ==
    [state |-> "Disconnected", host |-> NoIP, call |-> "none", target |-> NoIP,
     raised |-> FALSE, listeners |-> {}, last |-> "none"]

SessionInit == [d \in Entries |-> NewSession]

\* connect(h) is called: a no-op when connected to h, a disconnect first when
\* connected elsewhere, otherwise the session starts connecting.
SessionConnect(d, h) ==
    /\ session[d].call = "none"
    /\ session[d].state # "Connecting"
    /\ session' = [session EXCEPT ![d] =
        IF is_connected(@.state) /\ @.host = h
        THEN [@ EXCEPT !.raised = FALSE, !.last = "connect_ok"]
        ELSE IF is_connected(@.state)
             THEN [@ EXCEPT !.state = session_disconnect(@.state), !.host = NoIP,
                            !.call = "connect", !.target = h, !.raised = FALSE,
                            !.last = "connecting"]
             ELSE [@ EXCEPT !.state = session_connecting(@.state), !.host = h,
                            !.call = "connect", !.target = h, !.raised = FALSE,
                            !.last = "connecting"]]
    /\ UNCHANGED <<lifeVars, mgrVars, haVars, factory, env, store, resolver, codec>>

\* The connect that disconnected first goes on to connect.
SessionConnectProceed(d) ==
    /\ session[d].call = "connect"
    /\ session[d].state = "Disconnected"
    /\ session' = [session EXCEPT ![d].state = session_connecting(@),
                                  ![d].host = session[d].target]
    /\ UNCHANGED <<lifeVars, mgrVars, haVars, factory, env, store, resolver, codec>>

\* connect returns (Connected) or raises ProtocolError (Failed).
SessionConnectDone(d, ok) ==
    /\ session[d].call = "connect"
    /\ session[d].state = "Connecting"
    /\ session' = [session EXCEPT ![d].state = session_connected(@, ok),
                                  ![d].call = "none", ![d].target = NoIP,
                                  ![d].raised = ~ok,
                                  ![d].last = IF ok THEN "connect_ok" ELSE "connect_raised"]
    /\ UNCHANGED <<lifeVars, mgrVars, haVars, factory, env, store, resolver, codec>>

\* The transport drops: a connect in progress raises, an established
\* connection fails silently.
SessionTransportError(d) ==
    /\ session' = [session EXCEPT ![d].state = transport_error(@),
                                  ![d].call = IF session[d].state = "Connecting" THEN "none" ELSE @,
                                  ![d].target = IF session[d].state = "Connecting" THEN NoIP ELSE @,
                                  ![d].raised = IF session[d].state = "Connecting" THEN TRUE ELSE @,
                                  ![d].last = IF session[d].state = "Connecting" THEN "connect_raised"
                                              ELSE IF session[d].state = "Connected" THEN "dropped"
                                              ELSE @]
    /\ UNCHANGED <<lifeVars, mgrVars, haVars, factory, env, store, resolver, codec>>

\* disconnect(): from any state, never raising.
SessionDisconnect(d) ==
    /\ session' = [session EXCEPT ![d].state = session_disconnect(@), ![d].host = NoIP,
                                  ![d].call = "none", ![d].target = NoIP,
                                  ![d].raised = FALSE,
                                  ![d].last = IF session[d].state = "Disconnected" /\ session[d].call = "none"
                                              THEN "disconnect_again" ELSE "disconnect"]
    /\ UNCHANGED <<lifeVars, mgrVars, haVars, factory, env, store, resolver, codec>>

SessionAddListener(d, l) ==
    /\ l \notin session[d].listeners
    /\ session' = [session EXCEPT ![d].listeners = @ \cup {l}]
    /\ UNCHANGED <<lifeVars, mgrVars, haVars, factory, env, store, resolver, codec>>

SessionRemoveListener(d, l) ==
    /\ l \in session[d].listeners
    /\ session' = [session EXCEPT ![d].listeners = @ \ {l}]
    /\ UNCHANGED <<lifeVars, mgrVars, haVars, factory, env, store, resolver, codec>>

\* ----------------------------------------------- Device Session (messages)
\* The message path and the commands of one session: the session of Device.
Device == "e1"

\* Two logical attributes of the product-state, with the values they take.
Attrs == {"fnsp", "fpwr"}
Speeds == {"0001", "0005"}
Domain(a) == IF a = "fnsp" THEN Speeds ELSE {"OFF", "ON"}
EnvAttrs == {"hact"}
EnvReadings == {"0030", "0055"}
NoValue == "none"

\* const.py MessageType, and the class attribute _MESSAGE_TYPE of the entity
\* behind each listener: l1 a DysonSensor, l2 a DysonSensorEnvironmental.
MessageType == {"STATE", "ENVIRONMENTAL"}
MESSAGE_TYPE == [l \in Listeners |-> IF l = "l1" THEN "STATE" ELSE "ENVIRONMENTAL"]

\* DysonEntity._on_message: the entity schedules a state update when the
\* tag is the message type it follows.
on_message(l, message_type) == MESSAGE_TYPE[l] = message_type

\* A JSON value of a payload: a scalar, an array, or a key that is absent.
Scalar(v) == [list |-> FALSE, items |-> <<v>>]
Pair(old, new) == [list |-> TRUE, items |-> <<old, new>>]
EmptyArray == [list |-> TRUE, items |-> <<>>]
Absent == [list |-> FALSE, items |-> <<>>]

JsonValues(values) ==
    {Scalar(v) : v \in values} \cup {Pair(o, n) : o \in values, n \in values}
        \cup {EmptyArray, Absent}

ProductStates == {ps \in [Attrs -> JsonValues(Speeds \cup {"OFF", "ON"})] :
                     \A a \in Attrs : \A i \in 1..Len(ps[a].items) : ps[a].items[i] \in Domain(a)}

EnvironmentalData == [EnvAttrs -> {Scalar(v) : v \in EnvReadings} \cup {EmptyArray, Absent}]

Messages ==
    {[msg |-> m, body |-> ps] : m \in {"CURRENT-STATE", "STATE-CHANGE"}, ps \in ProductStates}
        \cup {[msg |-> "ENVIRONMENTAL-CURRENT-SENSOR-DATA", body |-> d] : d \in EnvironmentalData}

\* (a) the kind of a message.
message_kind(m) == IF m.msg \in {"CURRENT-STATE", "STATE-CHANGE"} THEN "STATE" ELSE "ENVIRONMENTAL"

\* _analyze_state_transitions: a state transition is a list of two values.
is_transition(v) == v.list /\ Len(v.items) = 2

\* A decoder that takes the old value of a transition.
decode_value_old(v) ==
    IF is_transition(v) THEN v.items[1]
    ELSE IF ~v.list /\ Len(v.items) = 1 THEN v.items[1]
    ELSE NoValue

\* The value a key decodes to: the new value of a transition, a scalar as it
\* is, nothing for an absent key or another shape.
decode_value(v) ==
    IF is_transition(v) THEN v.items[2]
    ELSE IF ~v.list /\ Len(v.items) = 1 THEN v.items[1]
    ELSE NoValue

\* Whether a value has a shape the codec knows.
known_shape(v) == is_transition(v) \/ ~v.list

\* A decoder that lets every payload through, an unknown shape as no value.
decode_lenient(body) == [ok |-> TRUE, fields |-> [a \in DOMAIN body |-> decode_value(body[a])]]

\* (b) decode_state / decode_environmental: the fields of the payload, or a
\* DecodeError (ok is FALSE) when a value has an unknown shape.
decode(body) ==
    [ok |-> \A a \in DOMAIN body : known_shape(body[a]),
     fields |-> [a \in DOMAIN body |-> decode_value(body[a])]]

\* A merge that keeps the value the session already has for a field.
merge_keep(snapshot, msg, fields) ==
    [a \in DOMAIN snapshot |-> IF snapshot[a] # NoValue THEN snapshot[a] ELSE fields[a]]

\* (c) CURRENT-STATE and environmental data replace the snapshot, a
\* STATE-CHANGE is merged into it field by field.
merge(snapshot, msg, fields) ==
    IF msg = "STATE-CHANGE"
    THEN [a \in DOMAIN snapshot |-> IF fields[a] # NoValue THEN fields[a] ELSE snapshot[a]]
    ELSE fields

covered(fields) == {a \in DOMAIN fields : fields[a] # NoValue}

\* (d) the pending commands of the reported attributes are resolved.
reconcile(pending, attrs) == {p \in pending : p.attr \notin attrs}

\* A command that is tracked next to the older ones.
track_also(pending, a, v) == pending \cup {[attr |-> a, value |-> v]}

\* A command is tracked: it supersedes an older one for the same attribute.
track(pending, a, v) == {p \in pending : p.attr # a} \cup {[attr |-> a, value |-> v]}

\* A dispatch that calls every listener of Listeners, registered or not.
notify_all(listeners) == [l \in Listeners |-> 1]

\* (e) every registered listener is called once.
notify(listeners) == [l \in Listeners |-> IF l \in listeners THEN 1 ELSE 0]

NoCalls == [l \in Listeners |-> 0]

\* A command that only publishes.
optimistic_none(snapshot, a, v) == snapshot

\* The optimistic update of a command.
optimistic(snapshot, a, v) == [snapshot EXCEPT ![a] = v]

\* `op` is the operation in progress on the session, from its call to its
\* return: a command (attr, value) or the dispatch of a message (msg), with
\* what it did: outcome is ok, replaced (the command superseded a pending
\* command with another value), raised (ProtocolError, not connected),
\* merged, overrode (the report replaced an optimistic value by another one)
\* or dropped; tag, calls and updates are the listener calls it made.
NoMessage == [msg |-> NoValue, body |-> [a \in {} |-> Absent]]

NoOperation ==
    [name |-> "idle", msg |-> NoMessage, attr |-> NoValue, value |-> NoValue,
     outcome |-> NoValue, tag |-> NoValue, calls |-> NoCalls, updates |-> {}]

StoreInit ==
    [snapshot |-> [a \in Attrs |-> NoValue],
     environmental |-> [a \in EnvAttrs |-> NoValue],
     pending |-> {},
     op |-> NoOperation]

\* A command method (set_speed and the like) for attribute a and value v.
SessionCommand(a, v) ==
    /\ store.op = NoOperation
    /\ store' =
        IF is_connected(session[Device].state)
        THEN [store EXCEPT !.snapshot = optimistic(@, a, v),
                           !.pending = track(@, a, v),
                           !.op = [NoOperation EXCEPT
                                      !.name = "command", !.attr = a, !.value = v,
                                      !.outcome = IF \E p \in store.pending : p.attr = a /\ p.value # v
                                                  THEN "replaced" ELSE "ok"]]
        ELSE [store EXCEPT !.op = [NoOperation EXCEPT
                                      !.name = "command", !.attr = a, !.value = v,
                                      !.outcome = "raised"]]
    /\ UNCHANGED <<lifeVars, mgrVars, haVars, factory, env, session, resolver, codec>>

\* The pending command of attribute a times out.
PendingTimeout(a) ==
    /\ store.op = NoOperation
    /\ \E p \in store.pending : p.attr = a
    /\ store' = [store EXCEPT !.pending = {p \in @ : p.attr # a}]
    /\ UNCHANGED <<lifeVars, mgrVars, haVars, factory, env, session, resolver, codec>>

\* The state of the session after the dispatch of message m.
dispatch(st, listeners, m) ==
    LET kind == message_kind(m)
        d == decode(m.body)
        calls == notify(listeners)
        called == [NoOperation EXCEPT
                      !.name = "message", !.msg = m, !.tag = kind, !.calls = calls,
                      !.updates = {l \in Listeners : calls[l] > 0 /\ on_message(l, kind)}]
    IN  IF ~d.ok
        THEN [st EXCEPT !.op = [NoOperation EXCEPT !.name = "message", !.msg = m,
                                                   !.outcome = "dropped"]]
        ELSE IF kind = "STATE"
        THEN [st EXCEPT !.snapshot = merge(@, m.msg, d.fields),
                        !.pending = reconcile(@, covered(d.fields)),
                        !.op = [called EXCEPT !.outcome =
                                   IF \E p \in st.pending : /\ p.attr \in covered(d.fields)
                                                            /\ st.snapshot[p.attr] = p.value
                                                            /\ d.fields[p.attr] # p.value
                                   THEN "overrode" ELSE "merged"]]
        ELSE [st EXCEPT !.environmental = merge(@, m.msg, d.fields),
                        !.op = [called EXCEPT !.outcome = "merged"]]

\* A message arrives on the transport of the connected session and is
\* dispatched.
Deliver(m) ==
    /\ store.op = NoOperation
    /\ is_connected(session[Device].state)
    /\ store' = dispatch(store, session[Device].listeners, m)
    /\ UNCHANGED <<lifeVars, mgrVars, haVars, factory, env, session, resolver, codec>>

\* The command or the dispatch returns.
OperationReturn ==
    /\ store.op # NoOperation
    /\ store' = [store EXCEPT !.op = NoOperation]
    /\ UNCHANGED <<lifeVars, mgrVars, haVars, factory, env, session, resolver, codec>>

\* ------------------------------------------------------------ Message Codec
\* decode_state on its own: a snapshot, a state message, and the snapshot the
\* session has after the message.
Snapshots == [Attrs -> Speeds \cup {"OFF", "ON", NoValue}]

CodecIdle == [pc |-> "idle", before |-> [a \in Attrs |-> NoValue], msg |-> NoValue,
              body |-> [a \in Attrs |-> Absent], ok |-> FALSE,
              after |-> [a \in Attrs |-> NoValue]]

CodecInputs ==
    {[CodecIdle EXCEPT !.pc = "start", !.before = b, !.after = b, !.msg = m, !.body = ps] :
        b \in {sn \in Snapshots : \A a \in Attrs : sn[a] \in Domain(a) \cup {NoValue}},
        m \in {"CURRENT-STATE", "STATE-CHANGE"},
        ps \in ProductStates}

\* The payload is decoded and, unless that fails, merged into the snapshot.
CodecDecode ==
    /\ codec.pc = "start"
    /\ codec' = [codec EXCEPT !.pc = "done",
                              !.ok = decode(codec.body).ok,
                              !.after = IF decode(codec.body).ok
                                        THEN merge(codec.before, codec.msg, decode(codec.body).fields)
                                        ELSE codec.before]
    /\ UNCHANGED <<lifeVars, mgrVars, haVars, factory, env, session, store, resolver>>

\* The same payload is decoded again, into the snapshot it gave.
CodecDecodeAgain ==
    /\ codec.pc = "done"
    /\ codec' = [codec EXCEPT !.pc = "again",
                              !.before = codec.after,
                              !.after = IF decode(codec.body).ok
                                        THEN merge(codec.after, codec.msg, decode(codec.body).fields)
                                        ELSE codec.after]
    /\ UNCHANGED <<lifeVars, mgrVars, haVars, factory, env, session, store, resolver>>

\* -------------------------------------------------------- Discovery Resolver
\* One resolver on its own: its records, its registrations and the calls it
\* makes to on_found.  Serials are those of the entries.
MaxResolverCalls == 4
Addresses == {"ip1", "ip2"}

\* `seen` is the DiscoveryRecord of each serial, `calls` the addresses
\* on_found of each serial was called with, in order, `first` what the
\* resolver met first for the serial (its registration or an announcement),
\* `n` the number of register_device calls and announcements so far.
ResolverInit ==
    [seen |-> [s \in Entries |-> NoIP],
     registered |-> {},
     calls |-> [s \in Entries |-> <<>>],
     first |-> [s \in Entries |-> "none"],
     n |-> 0]

\* A resolver that calls on_found for the first address of a serial only.
address_changed_first(record, ip) == record = NoIP

\* Whether an announcement changes the recorded address.
address_changed(record, ip) == record # ip

\* A resolver that looks up nothing at registration.
already_seen_none(records, s) == NoIP

\* The address already recorded for a serial, if any.
already_seen(records, s) == records[s]

\* register_device(identity, on_found): on_found is registered, and called at
\* once with an address already recorded for the serial.
ResolverRegister(s) ==
    /\ resolver.n < MaxResolverCalls
    /\ s \notin resolver.registered
    /\ resolver' = [resolver EXCEPT
          !.registered = @ \cup {s},
          !.calls[s] = IF already_seen(resolver.seen, s) # NoIP
                       THEN Append(@, already_seen(resolver.seen, s)) ELSE @,
          !.first[s] = IF @ = "none" THEN "registered" ELSE @,
          !.n = @ + 1]
    /\ UNCHANGED <<lifeVars, mgrVars, haVars, factory, env, session, store, codec>>

\* unregister_device(identity): delivery stops.
ResolverUnregister(s) ==
    /\ s \in resolver.registered
    /\ resolver' = [resolver EXCEPT !.registered = @ \ {s}]
    /\ UNCHANGED <<lifeVars, mgrVars, haVars, factory, env, session, store, codec>>

\* An announcement of serial s at address ip: the record is created or
\* refreshed, and on_found of a registered serial is called when the address
\* is new.
ResolverAnnounce(s, ip) ==
    /\ resolver.n < MaxResolverCalls
    /\ resolver' = [resolver EXCEPT
          !.seen[s] = ip,
          !.calls[s] = IF s \in resolver.registered /\ address_changed(resolver.seen[s], ip)
                       THEN Append(@, ip) ELSE @,
          !.first[s] = IF @ = "none" THEN "announced" ELSE @,
          !.n = @ + 1]
    /\ UNCHANGED <<lifeVars, mgrVars, haVars, factory, env, session, store, codec>>

\* -------------------------------------------------------------- config flow
\* config_flow.py: one DysonLocalConfigFlow.  Its steps show forms, route,
\* and (wifi, manual, host) try a connection to the device.
DISCOVERY_TIMEOUT == 10

FlowAddresses == {"ip1", "ip2"}

\* The values of CONF_METHOD the user step may be given: the keys of
\* SETUP_METHODS and one that is none of them.
Methods == {"wifi", "cloud", "manual", "other"}

ConnectSteps == {"wifi", "manual", "host"}

NoResult == [type |-> "none", step_id |-> "none", errors |-> "none"]

\* async_show_form(step_id=..., errors=...)
show_form(step, errors) == [type |-> "form", step_id |-> step, errors |-> errors]

\* A new flow: no form shown yet, nothing attempted.
FlowInit ==
    [cur |-> "init", pc |-> "idle", method |-> "unset", called |-> <<>>,
     given |-> NoIP, host |-> NoIP, set |-> FALSE, succeed |-> FALSE, t |-> 0,
     started |-> 0, stopped |-> 0, connected_to |-> <<>>, failure |-> "none",
     result |-> NoResult]

\* async_step_user with every method routed to the manual step.
next_step_manual(method) == "manual"

\* async_step_user: the step a submitted method is handed to.
next_step(method) ==
    IF method = "wifi" THEN "wifi" ELSE IF method = "cloud" THEN "cloud" ELSE "manual"

\* The exceptions of _async_try_connect the except clauses of a step catch.
caught(step) ==
    IF step = "host" THEN {"CannotConnect", "CannotFind"}
    ELSE {"InvalidAuth", "CannotConnect", "CannotFind"}

\* errors["base"] of the except clause for an exception.
error_key(exc) ==
    IF exc = "InvalidAuth" THEN "invalid_auth"
    ELSE IF exc = "CannotConnect" THEN "cannot_connect" ELSE "cannot_find"

\* _async_try_connect raised exc inside the step whose form is shown: the
\* step shows its form again with the error, or the exception leaves the
\* step.
try_connect_raised(f, exc, why) ==
    [f EXCEPT !.pc = "idle", !.failure = why,
              !.result = IF exc \in caught(f.cur) THEN show_form(f.cur, error_key(exc))
                         ELSE [type |-> "raised", step_id |-> f.cur, errors |-> exc]]

\* async_step_user: without input the user form; with input the chosen
\* step is called without input and shows its form.
FlowUser(input) ==
    /\ flow.pc = "idle"
    /\ flow.cur \in {"init", "user"}
    /\ flow' = IF input = "none"
               THEN [flow EXCEPT !.cur = "user", !.method = "none", !.result = show_form("user", "none")]
               ELSE [flow EXCEPT !.cur = next_step(input), !.method = input,
                                 !.called = Append(@, next_step(input)),
                                 !.result = show_form(next_step(input), "none")]
    /\ UNCHANGED <<lifeVars, mgrVars, coreVars, entity, sensor, climate, ids>>

\* async_step_discovery: a device of the cloud account that is not
\* configured yet goes to the host step, which shows its form.
FlowDiscovery ==
    /\ flow.pc = "idle"
    /\ flow.cur = "init"
    /\ flow' = [flow EXCEPT !.cur = "host", !.result = show_form("host", "none")]
    /\ UNCHANGED <<lifeVars, mgrVars, coreVars, entity, sensor, climate, ids>>

\* The form of a connecting step is submitted.  The step's own checks may
\* end it (Wi-Fi information that cannot be parsed, a serial already
\* configured, an unknown device type).  Otherwise _async_try_connect
\* starts: get_device returning None raises CannotConnect; without host a
\* temporary discovery is registered and started and the wait handed to the
\* executor; with a host the connect follows.
FlowSubmit(h, pre, creatable) ==
    /\ flow.pc = "idle"
    /\ flow.cur \in ConnectSteps
    /\ flow.result.type = "form"
    /\ LET f == [flow EXCEPT !.given = h, !.host = h, !.set = FALSE, !.succeed = FALSE, !.t = 0,
                             !.started = 0, !.stopped = 0, !.connected_to = <<>>,
                             !.failure = "none", !.result = NoResult]
       IN flow' =
            IF ~pre
            THEN [f EXCEPT !.result =
                    IF f.cur = "wifi" THEN show_form("wifi", "cannot_parse_wifi_info")
                    ELSE IF f.cur = "manual" THEN [type |-> "abort", step_id |-> "manual", errors |-> "already_configured"]
                    ELSE show_form("host", "unknown_device_type")]
            ELSE IF ~creatable THEN try_connect_raised(f, "CannotConnect", "no_device")
            ELSE IF h = NoIP THEN [f EXCEPT !.pc = "wait", !.started = 1]
            ELSE [f EXCEPT !.pc = "connect"]
    /\ UNCHANGED <<lifeVars, mgrVars, coreVars, entity, sensor, climate, ids>>

\* discovered.wait(DISCOVERY_TIMEOUT) in the executor: a second passes.
FlowTick ==
    /\ flow.pc = "wait"
    /\ ~flow.set
    /\ flow.t < DISCOVERY_TIMEOUT
    /\ flow' = [flow EXCEPT !.t = @ + 1]
    /\ UNCHANGED <<lifeVars, mgrVars, coreVars, entity, sensor, climate, ids>>

\* _callback(address), called by the running discovery: host is set and
\* the event too.
FlowFound(ip) ==
    /\ flow.pc \in {"wait", "stop"}
    /\ flow.host # ip
    /\ flow' = [flow EXCEPT !.host = ip, !.set = TRUE]
    /\ UNCHANGED <<lifeVars, mgrVars, coreVars, entity, sensor, climate, ids>>

\* A wait that reports the event set whatever happened.
wait_result_set(set) == TRUE

\* The value of discovered.wait(timeout): whether the event is set.
wait_result(set) == set

\* discovered.wait returns: True when the event is set, False after
\* DISCOVERY_TIMEOUT.
FlowWaitDone ==
    /\ flow.pc = "wait"
    /\ flow.set \/ flow.t = DISCOVERY_TIMEOUT
    /\ flow' = [flow EXCEPT !.succeed = wait_result(flow.set), !.pc = "stop"]
    /\ UNCHANGED <<lifeVars, mgrVars, coreVars, entity, sensor, climate, ids>>

\* The coroutine goes on: stop_discovery, then CannotFind without succeed.
FlowStopDiscovery ==
    /\ flow.pc = "stop"
    /\ LET f == [flow EXCEPT !.stopped = @ + 1]
       IN flow' = IF ~flow.succeed THEN try_connect_raised(f, "CannotFind", "timeout")
                  ELSE [f EXCEPT !.pc = "connect"]
    /\ UNCHANGED <<lifeVars, mgrVars, coreVars, entity, sensor, climate, ids>>

\* device.connect(host) returns (the step creates the entry) or raises
\* DysonInvalidCredential (InvalidAuth) or another DysonException
\* (CannotConnect).
FlowConnect(outcome) ==
    /\ flow.pc = "connect"
    /\ LET f == [flow EXCEPT !.connected_to = Append(@, flow.host)]
       IN flow' =
            IF outcome = "ok"
            THEN [f EXCEPT !.pc = "idle", !.result = [type |-> "create_entry", step_id |-> f.cur, errors |-> "none"]]
            ELSE IF outcome = "DysonInvalidCredential" THEN try_connect_raised(f, "InvalidAuth", "credential")
            ELSE try_connect_raised(f, "CannotConnect", "connect")
    /\ UNCHANGED <<lifeVars, mgrVars, coreVars, entity, sensor, climate, ids>>

\* A flow that created an entry, aborted or raised is over; a new one starts.
FlowOver ==
    /\ flow.pc = "idle"
    /\ flow.result.type \in {"create_entry", "abort", "raised"}
    /\ flow' = FlowInit
    /\ UNCHANGED <<lifeVars, mgrVars, coreVars, entity, sensor, climate, ids>>

\* ------------------------------------------------------------------ entity
\* entity.py: DysonEntity objects of one device and the message listeners
\* registered at that device.
EntityIds == {"fan", "sensor", "switch", "climate"}

\* The bound method self._on_message of entity e.
on_message_of(e) == <<e, "_on_message">>

NoCall == [name |-> "none", by |-> "none", arg |-> <<>>, raised |-> FALSE, escaped |-> FALSE]

\* The entities in hass, the listeners registered at the device, and the
\* last call of an entity hook.
EntityInit == [added |-> {}, listeners |-> {}, call |-> NoCall]

\* An except clause that lets the exception through.
reraise(raised) == raised

\* try: ... except Exception: log.  Whether the exception leaves the hook.
swallowed(raised) == FALSE

\* async_added_to_hass: the device is given self._on_message.
EntityAdded(e) ==
    /\ e \notin entity.added
    /\ entity' = [added |-> entity.added \cup {e},
                  listeners |-> entity.listeners \cup {on_message_of(e)},
                  call |-> [name |-> "added", by |-> e, arg |-> on_message_of(e), raised |-> FALSE, escaped |-> FALSE]]
    /\ UNCHANGED <<lifeVars, mgrVars, coreVars, flow, sensor, climate, ids>>

\* async_will_remove_from_hass: remove_message_listener(self._on_message)
\* removes the listener or raises (and may then have kept it); the hook
\* logs the exception.
EntityWillRemove(e, raises, kept) ==
    /\ e \in entity.added
    /\ entity' = [added |-> entity.added \ {e},
                  listeners |-> IF raises /\ kept THEN entity.listeners ELSE entity.listeners \ {on_message_of(e)},
                  call |-> [name |-> "will_remove", by |-> e, arg |-> on_message_of(e), raised |-> raises, escaped |-> swallowed(raises)]]
    /\ UNCHANGED <<lifeVars, mgrVars, coreVars, flow, sensor, climate, ids>>

\* -------------------------------------------------- environmental sensors
\* sensor.py: the sensor entities the device attributes of which hold an
\* environmental reading, by _SENSOR_TYPE.
SensorTypes ==
    {"humidity", "temperature", "aqi", "voc-index", "no2-index", "hcho-mg", "c02", "next_deep_clean"}

\* What the device attribute holds: None, or a number, which is the
\* reading or one of ENVIRONMENTAL_OFF, ENVIRONMENTAL_INIT, ENVIRONMENTAL_FAIL.
Readings == [number : BOOLEAN, value : RawValues]

\* native_value: the reading when it is not negative, else None.
native_value(r) == IF r.value >= 0 THEN [number |-> TRUE, value |-> r.value] ELSE [number |-> FALSE, value |-> 0]

\* available: isinstance(<device attribute>, (int, float)).
available(r) == r.number

SensorInputs ==
    [type : SensorTypes, reading : {r \in Readings : r.number \/ r.value = 0},
     read : {FALSE}, available : {FALSE}, native_value : {[number |-> FALSE, value |-> 0]}]

SensorIdle ==
    [type |-> "humidity", reading |-> [number |-> FALSE, value |-> 0],
     read |-> FALSE, available |-> FALSE, native_value |-> [number |-> FALSE, value |-> 0]]

\* Home Assistant reads the state of the sensor: available, and for an
\* available entity native_value.
SensorUpdate ==
    /\ ~sensor.read
    /\ sensor' = [sensor EXCEPT !.read = TRUE,
                                !.available = available(sensor.reading),
                                !.native_value = IF available(sensor.reading) THEN native_value(sensor.reading) ELSE @]
    /\ UNCHANGED <<lifeVars, mgrVars, coreVars, flow, entity, climate, ids>>

\* The device reports another reading for the attribute.
SensorReport(r) ==
    /\ sensor.read
    /\ r # sensor.reading
    /\ sensor' = [sensor EXCEPT !.reading = r, !.read = FALSE]
    /\ UNCHANGED <<lifeVars, mgrVars, coreVars, flow, entity, climate, ids>>

\* -------------------------------------------------------- entity unique ids
\* The entities the platforms of this repository create for one device.
\* (fan.py, select.py and number.py are not part of the sources.)
VacuumKinds == {"Dyson360Eye", "Dyson360Heurist", "Dyson360VisNav"}

FanKinds ==
    {"DysonPureCoolLink", "DysonPureHotCoolLink", "DysonBigQuiet",
     "DysonPurifierHumidifyCool", "DysonBasicPurifierFan", "DysonPureCool"}

\* What the platforms ask the device object with hasattr: heat_target or
\* heat_mode; humidification; filter_life; a carbon_filter_life that is
\* not None; humidity, temperature and volatile_organic_compounds; the
\* particulate, nitrogen dioxide, formaldehyde and carbon dioxide readings.
Capabilities == {"heat", "humidification", "filter_life", "carbon", "env", "air"}

\* A device: its class, its capabilities, and whether a MyDyson account
\* entry lists it too.
DeviceObjects ==
    [kind : FanKinds, caps : SUBSET Capabilities, cloud : {FALSE}]
        \cup [kind : VacuumKinds, caps : {{}}, cloud : BOOLEAN]

NoSubId == "None"

\* unique_id with the sub id left out.
unique_id_serial(serial, sub_unique_id) == <<serial>>

\* DysonEntity.unique_id: the serial, or f"{serial}-{sub_unique_id}".
unique_id(serial, sub_unique_id) ==
    IF sub_unique_id = NoSubId THEN <<serial>> ELSE <<serial, "-", sub_unique_id>>

\* get_platforms_for_device, and the camera platform of an account entry.
platforms_for_device(d) ==
    IF d.kind \in VacuumKinds
    THEN {"binary_sensor", "sensor", "vacuum"}
            \cup (IF d.cloud /\ d.kind = "Dyson360Eye" THEN {"camera"} ELSE {})
    ELSE {"sensor", "switch"}
            \cup (IF "heat" \in d.caps \/ d.kind = "DysonPureHotCoolLink" THEN {"climate"} ELSE {})
            \cup (IF d.kind \in {"DysonPureCoolLink", "DysonPureHotCoolLink"} THEN {"binary_sensor"} ELSE {})
            \cup (IF "humidification" \in d.caps THEN {"humidifier"} ELSE {})
            \cup (IF "filter_life" \in d.caps THEN {"button"} ELSE {})

\* The sub_unique_id of every entity async_setup_entry of platform p adds.
sub_unique_ids(p, d) ==
    IF p = "binary_sensor" THEN
        (IF d.kind \in VacuumKinds THEN {"battery_charging"} ELSE {})
            \cup (IF d.kind \in {"Dyson360Heurist", "Dyson360VisNav"} THEN {"bin_full"} ELSE {})
            \cup (IF d.kind = "DysonPureHotCoolLink" THEN {"tilt"} ELSE {})
    ELSE IF p = "sensor" THEN
        IF d.kind \in VacuumKinds THEN {"battery_level"}
        ELSE (IF "env" \in d.caps THEN {"humidity", "temperature", "voc-index"} ELSE {})
            \cup (IF d.kind = "DysonPureCoolLink"
                  THEN {"filter_life", "filter_life_percentage", "aqi"}
                  ELSE (IF d.kind = "DysonBigQuiet" /\ "air" \in d.caps THEN {"c02"} ELSE {})
                        \cup (IF d.kind = "DysonBasicPurifierFan" \/ "air" \in d.caps THEN {"pm25", "pm10"} ELSE {})
                        \cup (IF "air" \in d.caps THEN {"no2-index"} ELSE {})
                        \cup (IF "carbon" \in d.caps THEN {"carbon_filter_life", "hepa_filter_life"}
                              ELSE {"combined_filter_life"}))
            \cup (IF d.kind = "DysonPurifierHumidifyCool" THEN {"next_deep_clean"} ELSE {})
            \cup (IF "air" \in d.caps THEN {"hcho-mg"} ELSE {})
    ELSE IF p = "switch" THEN
        {"night_mode", "continuous_monitoring"}
            \cup (IF d.kind = "DysonPureHotCoolLink" THEN {"focus_mode"} ELSE {})
    ELSE IF p = "button" THEN
        (IF "filter_life" \in d.caps THEN {"reset-filter"} ELSE {})
    ELSE {NoSubId}

IdsIdle == [device |-> [kind |-> "DysonPureCool", caps |-> {}, cloud |-> FALSE], serial |-> "e1", entities |-> {}]

IdsInputs == [device : DeviceObjects, serial : {"e1"}, entities : {{}}]

\* async_setup_entry of platform p: its entities are added.
PlatformSetup(p) ==
    /\ p \in platforms_for_device(ids.device)
    /\ \A a \in ids.entities : a.platform # p
    /\ ids' = [ids EXCEPT !.entities = @ \cup
                 {[platform |-> p, sub_unique_id |-> s, unique_id |-> unique_id(ids.serial, s)] :
                    s \in sub_unique_ids(p, ids.device)}]
    /\ UNCHANGED <<lifeVars, mgrVars, coreVars, flow, entity, sensor, climate>>

\* ------------------------------------------------------------------ climate
\* climate.py: DysonClimateEntity over the flags of its device.
MIN_TEMP == 1
MAX_TEMP == 37
KELVIN == 273

\* Temperatures a service call may ask for, in and out of range.
TargetTemps == {-300, MIN_TEMP - 1, MIN_TEMP, 20, MAX_TEMP, MAX_TEMP + 1, 400}

HVACModes == {"off", "cool", "heat"}

\* hvac_mode from the heat status instead of the heat mode.
hvac_mode_by_status(is_on, heat_mode_is_on, heat_status_is_on) ==
    IF ~is_on THEN "off" ELSE IF heat_status_is_on THEN "heat" ELSE "cool"

\* DysonClimateEntity.hvac_mode
hvac_mode(is_on, heat_mode_is_on, heat_status_is_on) ==
    IF ~is_on THEN "off" ELSE IF heat_mode_is_on THEN "heat" ELSE "cool"

\* DysonClimateEntity.hvac_action
hvac_action(is_on, heat_mode_is_on, heat_status_is_on) ==
    IF ~is_on THEN "off"
    ELSE IF heat_mode_is_on THEN (IF heat_status_is_on THEN "heating" ELSE "idle")
    ELSE "cooling"

\* A target that is passed on as it is.
unlimited(t) == t

\* set_temperature: the target limited to min_temp..max_temp.
limited(t) ==
    LET low == IF MAX_TEMP < t THEN MAX_TEMP ELSE t
    IN IF MIN_TEMP > low THEN MIN_TEMP ELSE low

\* DysonClimateEntity.target_temperature for a device whose heat_target is
\* the given kelvin value.
target_temperature(heat_target) == heat_target - KELVIN

\* kwargs.get(ATTR_TEMPERATURE) of a set_temperature call: None or a number.
NoTemperature == [number |-> FALSE, value |-> 0]

Temperatures == {NoTemperature} \cup [number : {TRUE}, value : TargetTemps]

\* set_temperature has not been the last service call.
NotAsked == [number |-> FALSE, value |-> -1]

ClimateIdle ==
    [is_on |-> FALSE, heat_mode_is_on |-> FALSE, heat_status_is_on |-> FALSE,
     read |-> FALSE, hvac_mode |-> "none", hvac_action |-> "none", calls |-> <<>>,
     asked |-> NotAsked]

ClimateInputs ==
    [is_on : BOOLEAN, heat_mode_is_on : BOOLEAN, heat_status_is_on : BOOLEAN,
     read : {FALSE}, hvac_mode : {"none"}, hvac_action : {"none"}, calls : {<<>>},
     asked : {NotAsked}]

\* Home Assistant writes the state of the entity: hvac_mode and hvac_action
\* are read.
ClimateUpdate ==
    /\ ~climate.read
    /\ climate' = [climate EXCEPT
          !.read = TRUE,
          !.hvac_mode = hvac_mode(climate.is_on, climate.heat_mode_is_on, climate.heat_status_is_on),
          !.hvac_action = hvac_action(climate.is_on, climate.heat_mode_is_on, climate.heat_status_is_on)]
    /\ UNCHANGED <<lifeVars, mgrVars, coreVars, flow, entity, sensor, ids>>

\* set_hvac_mode: the device methods called, in order.
ClimateSetHvacMode(mode) ==
    /\ climate.read
    /\ climate' = [climate EXCEPT !.asked = NotAsked, !.calls =
          (IF mode = "off" THEN <<"turn_off">> ELSE IF ~climate.is_on THEN <<"turn_on">> ELSE <<>>)
          \o (IF mode = "heat" THEN <<"enable_heat_mode">>
              ELSE IF mode = "cool" THEN <<"disable_heat_mode">> ELSE <<>>)]
    /\ UNCHANGED <<lifeVars, mgrVars, coreVars, flow, entity, sensor, ids>>

\* set_temperature: without a temperature nothing is sent; otherwise
\* set_heat_target with the limited target in kelvin.
ClimateSetTemperature(t) ==
    /\ climate.read
    /\ climate' = [climate EXCEPT
          !.asked = t,
          !.calls = IF ~t.number THEN <<>> ELSE <<"set_heat_target", limited(t.value) + KELVIN>>]
    /\ UNCHANGED <<lifeVars, mgrVars, coreVars, flow, entity, sensor, ids>>

\* The device reports its state: the flags change.
ClimateReport(on, mode, status) ==
    /\ climate.read
    /\ <<on, mode, status>> # <<climate.is_on, climate.heat_mode_is_on, climate.heat_status_is_on>>
    /\ climate' = [climate EXCEPT !.is_on = on, !.heat_mode_is_on = mode, !.heat_status_is_on = status,
                                  !.read = FALSE]
    /\ UNCHANGED <<lifeVars, mgrVars, coreVars, flow, entity, sensor, ids>>

\* --------------------------------------------- ProgressiveDiscoveryManager
\* The keys of the product-state dictionaries given to the manager, in a
\* CURRENT-STATE message or as device.state.
ProgProductStates ==
    {{}, {"oscs", "osal"}, {"osal", "osau", "fnsp", "auto"},
     {"hflr", "nmod", "sltm", "cflt"}, {"hflt"}}

\* The keys of the data dictionaries of environmental messages.
ProgEnvironmentalData == {{}, {"pm25", "pm10"}, {"hact", "tact"}}

MessageTypes == {"CURRENT-STATE", "ENVIRONMENTAL-CURRENT-SENSOR-DATA", "STATE-CHANGE", "OTHER"}

NoData == {"None"}

\* __init__: nothing discovered, not monitoring, no listener on the device.
\* `listeners` counts the manager's listener in the device's list, `again`
\* holds the capabilities reported as newly discovered a second time, `op`
\* is the last operation.
ProgInit ==
    [monitoring |-> FALSE, message_listener_added |-> FALSE, listeners |-> 0,
     discovered_capabilities |-> {}, last_status_data |-> NoData,
     last_environmental_data |-> NoData,
     again |-> {}, op |-> "init"]

\* `"cap" not in self._discovered_capabilities`
undiscovered(cap, known) == cap \notin known

\* _discover_capabilities_from_status: the new capabilities in product_state.
discover_capabilities_from_status(product_state, known) ==
    {cap \in {"oscillation", "oscillation_angles", "fan_speed_control", "auto_mode",
              "heating", "night_mode", "sleep_timer", "filter_status"} :
        /\ undiscovered(cap, known)
        /\ CASE cap = "oscillation" -> "oscs" \in product_state
             [] cap = "oscillation_angles" -> {"osal", "osau"} \subseteq product_state
             [] cap = "fan_speed_control" -> "fnsp" \in product_state
             [] cap = "auto_mode" -> "auto" \in product_state
             [] cap = "heating" -> "hflr" \in product_state
             [] cap = "night_mode" -> "nmod" \in product_state
             [] cap = "sleep_timer" -> "sltm" \in product_state
             [] cap = "filter_status" -> {"cflt", "hflt"} \cap product_state # {}}

\* _discover_sensor_capabilities: the new sensors in data.
discover_sensor_capabilities(data, known) ==
    {cap \in {"pm25_sensor", "pm10_sensor", "humidity_sensor", "temperature_sensor"} :
        /\ undiscovered(cap, known)
        /\ CASE cap = "pm25_sensor" -> "pm25" \in data
             [] cap = "pm10_sensor" -> "pm10" \in data
             [] cap = "humidity_sensor" -> "hact" \in data
             [] cap = "temperature_sensor" -> "tact" \in data}

\* The manager after new capabilities were found and reported.
found(m, new) ==
    [m EXCEPT !.discovered_capabilities = @ \cup new,
              !.again = @ \cup (new \cap m.discovered_capabilities)]

\* _process_status_data: an empty product state is ignored.
process_status_data(m, product_state) ==
    IF product_state = {}
    THEN m
    ELSE found([m EXCEPT !.last_status_data = product_state],
               discover_capabilities_from_status(product_state, m.discovered_capabilities))

\* _process_environmental_data: empty data is ignored.
process_environmental_data(m, data) ==
    IF data = {}
    THEN m
    ELSE found([m EXCEPT !.last_environmental_data = data],
               discover_sensor_capabilities(data, m.discovered_capabilities))

\* A handler that processes messages whether monitoring or not.
handles_always(m) == TRUE

\* _on_mqtt_message: `if not self._monitoring: return`
handles(m) == m.monitoring

\* _on_mqtt_message with a message of type t carrying payload d.
on_mqtt_message(m, t, d) ==
    IF ~handles(m) THEN m
    ELSE IF t = "CURRENT-STATE" THEN process_status_data(m, d)
    ELSE IF t = "ENVIRONMENTAL-CURRENT-SENSOR-DATA" THEN process_environmental_data(m, d)
    ELSE m

\* start_monitoring: `not self._message_listener_added`
should_add(m) == ~m.message_listener_added

\* start_monitoring: a no-op when monitoring; otherwise the listener is
\* added and _analyze_current_capabilities processes device.state and
\* device.environmental_state.
ProgStart(state, environmental_state) ==
    /\ prog' = IF prog.monitoring
               THEN [prog EXCEPT !.op = "start_again"]
               ELSE LET a == [prog EXCEPT !.monitoring = TRUE, !.op = "start",
                                          !.listeners = IF should_add(prog) THEN @ + 1 ELSE @,
                                          !.message_listener_added = TRUE]
                    IN process_environmental_data(process_status_data(a, state), environmental_state)
    /\ UNCHANGED <<lifeVars, coreVars, haVars, reg, platforms>>

\* A removal that leaves the listener on the device.
remove_nothing(n) == n

\* device.remove_message_listener(self._on_mqtt_message), on the number of
\* times the listener is on the device.
remove_message_listener(n) == n - 1

\* The manager after stop_monitoring.
stopped(m) ==
    IF ~m.monitoring THEN m
    ELSE [m EXCEPT !.monitoring = FALSE,
                   !.listeners = IF m.message_listener_added THEN remove_message_listener(@) ELSE @,
                   !.message_listener_added = FALSE]

\* stop_monitoring
ProgStop ==
    /\ prog' = [stopped(prog) EXCEPT !.op = "stop"]
    /\ UNCHANGED <<lifeVars, coreVars, haVars, reg, platforms>>

\* cleanup: stop_monitoring when monitoring.
ProgCleanup ==
    /\ prog' = [(IF prog.monitoring THEN stopped(prog) ELSE prog) EXCEPT !.op = "cleanup"]
    /\ UNCHANGED <<lifeVars, coreVars, haVars, reg, platforms>>

\* A message reaches _on_mqtt_message.
ProgMessage(t, d) ==
    /\ prog' = [on_mqtt_message(prog, t, d) EXCEPT !.op = "message"]
    /\ UNCHANGED <<lifeVars, coreVars, haVars, reg, platforms>>

\* ------------------------------------------- config entries and their flows
\* config_flow.py: the entries of the domain, created by flows that run one
\* after another, and the reauthentication of an entry.
MaxEntries == 3

Serials == {"s1", "s2"}

Auths == {"a1", "a2"}

NoUniqueId == "None"

NoKey == "absent"

\* A local device entry: the data of _async_get_entry_data (no CONF_AUTH).
local_entry(uid, serial, host_) ==
    [unique_id |-> uid,
     data |-> [serial |-> serial, host |-> host_, region |-> NoKey, auth |-> NoKey]]

\* A MyDyson account entry: CONF_REGION and CONF_AUTH.
account_entry(auth_info) ==
    [unique_id |-> NoUniqueId,
     data |-> [serial |-> NoKey, host |-> NoKey, region |-> "US", auth |-> auth_info]]

NoStep == [step |-> "none", serial |-> "none", existed |-> FALSE, connected |-> FALSE, result |-> "none"]

\* No entries, no flow in progress.
RegInit ==
    [entries |-> <<>>, step |-> "idle", device |-> "none", target |-> 0,
     verify |-> FALSE, last |-> NoStep]

\* `for entry in self._async_current_entries(): if entry.unique_id == serial`
configured(entries, serial) ==
    \E i \in 1..Len(entries) : entries[i].unique_id = serial

\* What a step that tried to connect and got `ok` returns.
connect_result(step, ok) == IF ok THEN "create_entry" ELSE "form:" \o step \o ":error"

\* async_step_wifi with Wi-Fi information of serial s: the connection is
\* tried and the entry created; the flow has no unique id.
RegWifi(s, ok) ==
    /\ reg.step = "idle"
    /\ Len(reg.entries) < MaxEntries
    /\ reg' = [reg EXCEPT
                !.entries = IF ok THEN Append(@, local_entry(NoUniqueId, s, "ip1")) ELSE @,
                !.last = [step |-> "wifi", serial |-> s, existed |-> configured(reg.entries, s),
                          connected |-> TRUE, result |-> connect_result("wifi", ok)]]
    /\ UNCHANGED <<lifeVars, coreVars, haVars, prog, platforms>>

\* async_step_manual with serial s: abort when an entry has the serial as
\* unique id; otherwise the unique id is set, the connection tried and the
\* entry created.
RegManual(s, ok) ==
    /\ reg.step = "idle"
    /\ Len(reg.entries) < MaxEntries
    /\ reg' = IF configured(reg.entries, s)
              THEN [reg EXCEPT !.last = [step |-> "manual", serial |-> s, existed |-> TRUE,
                                         connected |-> FALSE, result |-> "already_configured"]]
              ELSE [reg EXCEPT
                      !.entries = IF ok THEN Append(@, local_entry(s, s, NoIP)) ELSE @,
                      !.last = [step |-> "manual", serial |-> s, existed |-> FALSE,
                                connected |-> TRUE, result |-> connect_result("manual", ok)]]
    /\ UNCHANGED <<lifeVars, coreVars, haVars, prog, platforms>>

\* async_step_discovery for a device of the account with serial s: abort
\* when configured, otherwise the unique id is set and the host form shown.
RegDiscovery(s) ==
    /\ reg.step = "idle"
    /\ Len(reg.entries) < MaxEntries
    /\ reg' = IF configured(reg.entries, s)
              THEN [reg EXCEPT !.last = [step |-> "discovery", serial |-> s, existed |-> TRUE,
                                         connected |-> FALSE, result |-> "already_configured"]]
              ELSE [reg EXCEPT !.step = "host", !.device = s,
                               !.last = [step |-> "discovery", serial |-> s, existed |-> FALSE,
                                         connected |-> FALSE, result |-> "form:host"]]
    /\ UNCHANGED <<lifeVars, coreVars, haVars, prog, platforms>>

\* async_step_host with input: the connection is tried and the entry
\* created under the unique id the discovery step set.
RegHost(ok) ==
    /\ reg.step = "host"
    /\ reg' = [reg EXCEPT
                !.entries = IF ok THEN Append(@, local_entry(reg.device, reg.device, NoIP)) ELSE @,
                !.step = IF ok THEN "idle" ELSE "host",
                !.device = IF ok THEN "none" ELSE @,
                !.last = [step |-> "host", serial |-> reg.device,
                          existed |-> configured(reg.entries, reg.device),
                          connected |-> TRUE, result |-> connect_result("host", ok)]]
    /\ UNCHANGED <<lifeVars, coreVars, haVars, prog, platforms>>

\* async_step_email_otp succeeds: an account entry with the auth info.
RegAccount(a) ==
    /\ reg.step = "idle"
    /\ Len(reg.entries) < MaxEntries
    /\ reg' = [reg EXCEPT !.entries = Append(@, account_entry(a)),
                          !.last = [NoStep EXCEPT !.step = "email_otp", !.result = "create_entry"]]
    /\ UNCHANGED <<lifeVars, coreVars, haVars, prog, platforms>>

\* async_step_reauth with entry id i in the context (0: none; an id past
\* the last entry: async_get_entry returns None).
RegReauth(i) ==
    /\ reg.step = "idle"
    /\ reg' = IF i = 0 \/ i > Len(reg.entries)
              THEN [reg EXCEPT !.last = [NoStep EXCEPT !.step = "reauth", !.result = "reauth_failed"]]
              ELSE IF reg.entries[i].data.auth = NoKey
              THEN [reg EXCEPT !.last = [NoStep EXCEPT !.step = "reauth", !.result = "reauth_not_needed"]]
              ELSE [reg EXCEPT !.step = "reauth_cloud", !.target = i, !.verify = FALSE,
                               !.last = [NoStep EXCEPT !.step = "reauth", !.result = "form:reauth_cloud"]]
    /\ UNCHANGED <<lifeVars, coreVars, haVars, prog, platforms>>

\* errors["base"] of the reauthentication steps for an exception.
reauth_error(exc) ==
    IF exc \in {"DysonLoginFailure", "DysonInvalidAuth"} THEN "invalid_auth"
    ELSE IF exc = "DysonNetworkError" THEN "cannot_connect" ELSE "unknown"

\* async_step_reauth_cloud with input: login_email_otp returns the verify
\* function (the OTP form follows) or raises.
RegReauthCloud(outcome) ==
    /\ reg.step = "reauth_cloud"
    /\ reg' = IF outcome = "ok"
              THEN [reg EXCEPT !.step = "reauth_otp", !.verify = TRUE,
                               !.last = [NoStep EXCEPT !.step = "reauth_cloud", !.result = "form:reauth_otp"]]
              ELSE [reg EXCEPT !.last = [NoStep EXCEPT !.step = "reauth_cloud",
                                         !.result = "form:reauth_cloud:" \o reauth_error(outcome)]]
    /\ UNCHANGED <<lifeVars, coreVars, haVars, prog, platforms>>

\* Entry data that keeps only the new auth info.
only_auth(data, auth_info) ==
    [serial |-> NoKey, host |-> NoKey, region |-> NoKey, auth |-> auth_info]

\* new_data = {**entry.data}; new_data[CONF_AUTH] = auth_info
new_data(data, auth_info) == [data EXCEPT !.auth = auth_info]

\* async_step_reauth_otp with input: verify returns the new auth info (the
\* entry is updated, reauth_successful) or raises (the form again).
RegReauthOtp(outcome, a) ==
    /\ reg.step = "reauth_otp"
    /\ reg' = IF outcome = "ok"
              THEN [reg EXCEPT !.entries[reg.target].data = new_data(@, a),
                               !.step = "idle", !.target = 0, !.verify = FALSE,
                               !.last = [NoStep EXCEPT !.step = "reauth_otp", !.result = "reauth_successful"]]
              ELSE [reg EXCEPT !.last = [NoStep EXCEPT !.step = "reauth_otp",
                                         !.result = "form:reauth_otp:" \o reauth_error(outcome)]]
    /\ UNCHANGED <<lifeVars, coreVars, haVars, prog, platforms>>

\* ------------------------------------------------ get_platforms_for_device
\* utils.py: the device given to get_platforms_for_device, by its
\* device_type and what hasattr finds on it: heat (heat_target or
\* heat_mode), humid (humidification or target_humidity), filter (one of the
\* filter lives), angles (the three oscillation attributes).
PlatformDeviceTypes == {"N223", "276", "277", "455", "475", "469", "438", "527", "358"}

\* The devices: the class of type 455 (DysonPureHotCoolLink) has
\* heat_target, which its climate entity reads.
PlatformDevices ==
    {d \in [device_type : PlatformDeviceTypes, heat : BOOLEAN, humid : BOOLEAN,
            filter : BOOLEAN, angles : BOOLEAN] :
        /\ (d.device_type = "455") => d.heat
        /\ (d.device_type \in VacuumTypes) => ~(d.heat \/ d.humid \/ d.filter \/ d.angles)}

NoList == <<"None">>

PlatformsIdle ==
    [device |-> [device_type |-> "438", heat |-> FALSE, humid |-> FALSE, filter |-> FALSE, angles |-> FALSE],
     result |-> NoList]

PlatformsInputs == [device : PlatformDevices, result : {NoList}]

\* platforms.append(name) when the condition holds.
append_if(cond, list, name) == IF cond THEN Append(list, name) ELSE list

\* get_platforms_for_device
get_platforms_for_device(d) ==
    IF d.device_type \in VacuumTypes
    THEN <<"binary_sensor", "sensor", "vacuum">>
    ELSE LET p0 == <<"fan", "select", "sensor", "switch">>
             p1 == append_if(d.heat, p0, "climate")
             p2 == append_if(d.device_type \in {"455", "475", "469"}, p1, "binary_sensor")
             p3 == append_if(d.device_type = "455", p2, "climate")
             p4 == append_if(d.humid, p3, "humidifier")
             p5 == append_if(d.filter, p4, "button")
         IN append_if(d.angles, p5, "number")

\* The connection handler asks for the platforms of the device.
GetPlatforms ==
    /\ platforms.result = NoList
    /\ platforms' = [platforms EXCEPT !.result = get_platforms_for_device(platforms.device)]
    /\ UNCHANGED <<lifeVars, coreVars, haVars, prog, reg>>

\* The manager is not looked at.
MgrIdle == prog = ProgInit /\ reg = RegInit /\ platforms = PlatformsIdle

\* ------------------------------------------------------------------ idle
\* The state the config flow and the entities are in while another part is
\* looked at.
HaIdle ==
    /\ MgrIdle
    /\ flow = FlowInit
    /\ entity = EntityInit
    /\ sensor = SensorIdle
    /\ climate = ClimateIdle
    /\ ids = IdsIdle

\* ----------------------------------------------------------- specifications
\* The lifecycle of the config entries.
Init ==
    /\ InitLife
    /\ factory = FactoryIdle
    /\ env = EnvIdle
    /\ session = SessionInit
    /\ store = StoreInit
    /\ resolver = ResolverInit
    /\ codec = CodecIdle
    /\ HaIdle

Next == NextLife

Spec == Init /\ [][Next]_vars

\* Nothing set up: the state the pure specifications keep the integration in.
LifeIdle ==
    /\ InitLife
    /\ host = [e \in Entries |-> NoIP]

\* The device factory, over every input.
InitFactory ==
    /\ LifeIdle
    /\ factory \in FactoryInputs
    /\ env = EnvIdle
    /\ session = SessionInit
    /\ store = StoreInit
    /\ resolver = ResolverInit
    /\ codec = CodecIdle
    /\ HaIdle

NextFactory ==
    \/ FactoryGetDevice
    \/ FactoryProgressive

SpecFactory == InitFactory /\ [][NextFactory]_vars

\* environmental_property, over every raw reading.
InitEnv ==
    /\ LifeIdle
    /\ factory = FactoryIdle
    /\ env \in EnvInputs
    /\ session = SessionInit
    /\ store = StoreInit
    /\ resolver = ResolverInit
    /\ codec = CodecIdle
    /\ HaIdle

NextEnv ==
    \/ \E f \in EnvFields : EnvRead(f)
    \/ \E f \in EnvFields, v \in RawValues : EnvReport(f, v)

SpecEnv == InitEnv /\ [][NextEnv]_vars

\* One Device Session under every order of calls and transport errors.
InitSession ==
    /\ LifeIdle
    /\ factory = FactoryIdle
    /\ env = EnvIdle
    /\ session = SessionInit
    /\ store = StoreInit
    /\ resolver = ResolverInit
    /\ codec = CodecIdle
    /\ HaIdle

NextSession ==
    \E d \in Entries :
        \/ \E h \in SessionHosts : SessionConnect(d, h)
        \/ SessionConnectProceed(d)
        \/ \E ok \in BOOLEAN : SessionConnectDone(d, ok)
        \/ SessionTransportError(d)
        \/ SessionDisconnect(d)
        \/ \E l \in Listeners : SessionAddListener(d, l)
        \/ \E l \in Listeners : SessionRemoveListener(d, l)

SpecSession == InitSession /\ [][NextSession]_vars

\* The messages and the commands of the session of Device, under every order
\* of calls, messages and transport errors.
InitMessages ==
    /\ LifeIdle
    /\ factory = FactoryIdle
    /\ env = EnvIdle
    /\ session = SessionInit
    /\ store = StoreInit
    /\ resolver = ResolverInit
    /\ codec = CodecIdle
    /\ HaIdle

NextMessages ==
    \/ store.op = NoOperation /\ \E h \in SessionHosts : SessionConnect(Device, h)
    \/ store.op = NoOperation /\ SessionConnectProceed(Device)
    \/ store.op = NoOperation /\ \E ok \in BOOLEAN : SessionConnectDone(Device, ok)
    \/ store.op = NoOperation /\ SessionTransportError(Device)
    \/ store.op = NoOperation /\ SessionDisconnect(Device)
    \/ store.op = NoOperation /\ \E l \in Listeners : SessionAddListener(Device, l)
    \/ store.op = NoOperation /\ \E l \in Listeners : SessionRemoveListener(Device, l)
    \/ \E a \in Attrs : \E v \in Domain(a) : SessionCommand(a, v)
    \/ \E a \in Attrs : PendingTimeout(a)
    \/ \E m \in Messages : Deliver(m)
    \/ OperationReturn

SpecMessages == InitMessages /\ [][NextMessages]_vars

\* The Message Codec, over every snapshot and every state payload.
InitCodec ==
    /\ LifeIdle
    /\ factory = FactoryIdle
    /\ env = EnvIdle
    /\ session = SessionInit
    /\ store = StoreInit
    /\ resolver = ResolverInit
    /\ codec \in CodecInputs
    /\ HaIdle

NextCodec ==
    \/ CodecDecode
    \/ CodecDecodeAgain

SpecCodec == InitCodec /\ [][NextCodec]_vars

\* The Discovery Resolver under every order of registrations and
\* announcements.
InitResolver ==
    /\ LifeIdle
    /\ factory = FactoryIdle
    /\ env = EnvIdle
    /\ session = SessionInit
    /\ store = StoreInit
    /\ resolver = ResolverInit
    /\ codec = CodecIdle
    /\ HaIdle

NextResolver ==
    \E s \in Entries :
        \/ ResolverRegister(s)
        \/ ResolverUnregister(s)
        \/ \E ip \in Addresses : ResolverAnnounce(s, ip)

SpecResolver == InitResolver /\ [][NextResolver]_vars

\* ------------------------------------------------------ lifecycle properties
\* C1: the shared discovery service is never stopped while a set-up entry
\* relies on it.  While a discovery-based entry is set up, the service its
\* setup registered with has not been stopped and is still the one in
\* DATA_DISCOVERY; and discovery_count is never below 0.
C1_ServiceKeptWhileUsed ==
    /\ count >= 0
    /\ \A e \in Entries :
        (host[e] = NoIP /\ life[e] = "loaded" /\ dref[e] # 0)
            => (dstate[dref[e]] # "stopped" /\ disc = dref[e])

\* C2: once async_unload_entry has completed for a discovery-based entry, no
\* later announcement of its serial connects the device again and stores it
\* in DATA_DEVICES / DATA_COORDINATORS.
C2_NoDeliveryAfterUnload ==
    \A e \in Entries :
        (cb["zc"].e = e /\ cb["zc"].late /\ host[e] = NoIP /\ life[e] = "not_loaded")
            => ~(cb["zc"].pc = "plat" /\ e \in devices /\ e \in coords /\ is_connected(conn[e]))

\* C3: when the connect to the static host of an entry raised DysonException,
\* the setup of that entry ends with ConfigEntryNotReady.
C3_StaticConnectFailureFailsSetup ==
    [][\A e \in Entries :
        (fb[e] = "connect" /\ life[e] = "setup" /\ life'[e] # "setup")
            => result'[e] = "ConfigEntryNotReady"]_vars

\* C4: when the setup of an entry with a static host returns True, the entry
\* is in DATA_DEVICES and in DATA_COORDINATORS and its device is connected.
C4_StaticSuccessStoresDevice ==
    [][\A e \in Entries :
        (host[e] # NoIP /\ life[e] = "setup" /\ life'[e] = "loaded")
            => (e \in devices' /\ e \in coords' /\ is_connected(conn'[e]))]_vars

\* C5: when the unload of a stored entry returns, it returns True, the device
\* has been disconnected, and the entry is in neither DATA_DEVICES nor
\* DATA_COORDINATORS.
C5_UnloadRemovesEntry ==
    [][\A e \in Entries :
        (life[e] = "unloading" /\ life'[e] # "unloading")
            => (result'[e] = "unloaded" /\ e \notin devices' /\ e \notin coords')]_vars

\* -------------------------------------------------------- factory properties
\* C6: for the vacuum device types N223, 276 and 277, get_device and
\* get_device_with_progressive_discovery both return Dyson360Eye,
\* Dyson360Heurist and Dyson360VisNav respectively, whatever capability
\* discovery does.
C6_VacuumAlwaysStatic ==
    factory.pc \in {"get_device", "progressive"} =>
        /\ factory.device_type = "N223" => factory.out = "Dyson360Eye"
        /\ factory.device_type = "276" => factory.out = "Dyson360Heurist"
        /\ factory.device_type = "277" => factory.out = "Dyson360VisNav"

\* C7: for a non-vacuum device type, when capability discovery raises or
\* returns no device, get_device returns what the static table gives for the
\* type, so the result depends on the device-type string alone.
C7_FallbackIsStaticTable ==
    (/\ factory.pc = "get_device"
     /\ factory.device_type \notin VacuumTypes
     /\ factory.dynamic_device \in {"raise", "None"})
        => factory.out = create_device_static(factory.device_type)

C7_Witness ==
    /\ factory.pc = "get_device"
    /\ factory.device_type = "438"
    /\ factory.dynamic_device = "raise"
    /\ factory.out = "DysonBasicPurifierFanWithOscillation"

\* C8: for a device type the static table does not list, when capability
\* discovery yields nothing, get_device returns None.
C8_UnmappedTypeGivesNone ==
    (/\ factory.pc = "get_device"
     /\ factory.device_type \notin StaticTypes
     /\ factory.dynamic_device \in {"raise", "None"})
        => factory.out = "None"

C8_Witness ==
    /\ factory.pc = "get_device"
    /\ factory.device_type = "999"
    /\ factory.dynamic_device = "None"
    /\ factory.out = "None"

\* ------------------------------------------ environmental_property property
\* C9: for every field read through environmental_property, -1, -2 and -3
\* read as off, init and fail, and every other raw value reads as itself.
C9_SentinelMapping ==
    env.field # "none" =>
        LET raw == env[env.field] IN
        /\ raw = -1 => env.out = "off"
        /\ raw = -2 => env.out = "init"
        /\ raw = -3 => env.out = "fail"
        /\ raw \notin {-1, -2, -3} => env.out = raw

C9_Witness ==
    /\ env.field = "humidity"
    /\ env.humidity = -2
    /\ env.out = "init"
    /\ env.temperature = 3

\* --------------------------------------------------- Device Session property
\* The transitions of the connection state the contract allows.
AllowedTransitions ==
    {<<"Disconnected", "Connecting">>, <<"Failed", "Connecting">>,
     <<"Connecting", "Connected">>, <<"Connecting", "Failed">>,
     <<"Connected", "Failed">>}
    \cup {<<st, "Disconnected">> : st \in ConnectionState}

\* C10: the connection state of every session starts as Disconnected and
\* changes only along the allowed transitions (so Failed is never entered
\* from Disconnected); no state is terminal: from Disconnected or Failed a
\* connect to any host can be made and takes the session to Connecting.
C10_SessionTransitions ==
    /\ \A d \in Entries : session[d].state = "Disconnected"
    /\ [][\A d \in Entries :
            session'[d].state # session[d].state
                => <<session[d].state, session'[d].state>> \in AllowedTransitions]_vars
    /\ [](\A d \in Entries :
            (session[d].state \in {"Disconnected", "Failed"} /\ session[d].call = "none")
                => \A h \in SessionHosts :
                      ENABLED (SessionConnect(d, h) /\ session'[d].state = "Connecting"))

C10_Witness ==
    /\ session["e1"].state = "Failed"
    /\ session["e1"].host = "ip2"
    /\ session["e1"].raised
    /\ session["e2"].state = "Connected"


C12_FailedConnectLeavesFailed ==
    /\ \A d \in Entries : session[d].call = "none" => session[d].state # "Connecting"
    /\ [][\A d \in Entries :
             /\ (session[d].state = "Connecting"
                     /\ (SessionConnectDone(d, FALSE) \/ SessionTransportError(d)))
                   => session'[d].state = "Failed" /\ session'[d].raised
             /\ session'[d].call = "none" => session'[d].state # "Connecting"]_vars

C12_Witness ==
    /\ session["e1"].last = "connect_raised"
    /\ session["e1"].state = "Failed"
    /\ session["e1"].call = "none"
    /\ session["e1"].host = "ip1"

\* A message has just been dispatched, a command has just been called.
Delivered == store.op = NoOperation /\ store'.op.name = "message"
Commanded == store.op = NoOperation /\ store'.op.name = "command"

\* The listener calls of a dispatch: one to each listener registered when the
\* message arrives, tagged with its kind.
CalledOnce ==
    /\ store'.op.tag = message_kind(store'.op.msg)
    /\ \A l \in Listeners :
          store'.op.calls[l] = IF l \in session[Device].listeners THEN 1 ELSE 0

Undecodable(m) == \E a \in DOMAIN m.body : m.body[a].list /\ Len(m.body[a].items) # 2

C14_OptimisticUpdate ==
    [][(Commanded /\ is_connected(session[Device].state))
          => store'.snapshot[store'.op.attr] = store'.op.value]_vars

C14_Witness ==
    /\ store.op.name = "command"
    /\ store.op.attr = "fnsp"
    /\ store.op.value = "0005"
    /\ store.op.outcome = "ok"
    /\ store.snapshot["fnsp"] = "0005"
    /\ store.pending = {[attr |-> "fnsp", value |-> "0005"]}
    /\ is_connected(session[Device].state)

\* The value a payload reports for a key.
Reported(v) == IF v.list THEN v.items[2] ELSE v.items[1]

\* C15: after a decoded state message that covers a field is processed, the
\* value of the field is the reported one, whatever was commanded before, and
\* no command is pending for the field any more.
C15_ReportOverridesOptimistic ==
    [][(Delivered /\ message_kind(store'.op.msg) = "STATE" /\ ~Undecodable(store'.op.msg))
          => \A a \in Attrs :
                store'.op.msg.body[a] # Absent
                    => /\ store'.snapshot[a] = Reported(store'.op.msg.body[a])
                       /\ \A p \in store'.pending : p.attr # a]_vars

C15_Witness ==
    /\ store.op.outcome = "overrode"
    /\ store.op.msg = [msg |-> "STATE-CHANGE", body |-> [a \in Attrs |->
                          IF a = "fnsp" THEN Pair("0005", "0001") ELSE Absent]]
    /\ store.snapshot["fnsp"] = "0001"
    /\ store.pending = {}

AtMostOnePending == \A p, q \in store.pending : p.attr = q.attr => p = q

\* C16: at most one pending command is tracked per attribute; a new command
\* for an attribute replaces the pending one and leaves those of the other
\* attributes; a message that reports no attribute with a pending command
\* leaves the pending commands as they are.
C16_OnePendingPerAttribute ==
    /\ AtMostOnePending
    /\ [][/\ AtMostOnePending'
          /\ (Commanded /\ is_connected(session[Device].state))
                => store'.pending = {p \in store.pending : p.attr # store'.op.attr}
                                        \cup {[attr |-> store'.op.attr, value |-> store'.op.value]}
          /\ (Delivered /\ \A p \in store.pending :
                               \/ p.attr \notin DOMAIN store'.op.msg.body
                               \/ store'.op.msg.body[p.attr] = Absent)
                => store'.pending = store.pending]_vars

C16_Witness ==
    /\ store.op.outcome = "replaced"
    /\ store.op.attr = "fnsp"
    /\ store.pending = {[attr |-> "fnsp", value |-> "0005"], [attr |-> "fpwr", value |-> "ON"]}

\* C17: a scalar of the product-state is decoded to itself and an [old, new]
\* array to its new value; the old value is not the value of the field in the
\* resulting snapshot.
C17_DecodeBothShapes ==
    codec.pc = "done" /\ codec.ok
        => \A a \in Attrs :
              /\ (~codec.body[a].list /\ Len(codec.body[a].items) = 1)
                    => codec.after[a] = codec.body[a].items[1]
              /\ (codec.body[a].list /\ Len(codec.body[a].items) = 2)
                    => /\ codec.after[a] = codec.body[a].items[2]
                       /\ codec.body[a].items[1] # codec.body[a].items[2]
                             => codec.after[a] # codec.body[a].items[1]

C17_Witness ==
    /\ codec.pc = "done"
    /\ codec.msg = "STATE-CHANGE"
    /\ codec.body["fpwr"] = Pair("OFF", "ON")
    /\ codec.body["fnsp"] = Scalar("0005")
    /\ codec.before["fpwr"] = "OFF"
    /\ codec.after["fpwr"] = "ON"
    /\ codec.after["fnsp"] = "0005"

\* C18: a message whose payload cannot be decoded is dropped: nothing is
\* raised, the connection state stays what it was, and both snapshots are
\* left as they were.
C18_UndecodableDropped ==
    [][(Delivered /\ Undecodable(store'.op.msg))
          => /\ session' = session
             /\ store'.snapshot = store.snapshot
             /\ store'.environmental = store.environmental
             /\ store'.op.outcome = "dropped"]_vars

C18_Witness ==
    /\ store.op.outcome = "dropped"
    /\ store.op.msg.msg = "CURRENT-STATE"
    /\ store.op.msg.body["fpwr"] = EmptyArray
    /\ store.snapshot["fnsp"] = "0005"
    /\ store.environmental["hact"] = "0030"
    /\ is_connected(session[Device].state)

\* ------------------------------------------------ Discovery Resolver contract
\* C19: for a serial registered before any announcement, the first
\* announcement calls the registered callback exactly once, with the announced
\* address, and a later announcement of another address calls it once more,
\* with the new address.
C19_AnnouncementCallsBack ==
    [][\A s \in Entries : \A ip \in Addresses :
          (ResolverAnnounce(s, ip) /\ s \in resolver.registered
                /\ resolver.first[s] = "registered" /\ resolver.seen[s] # ip)
              => /\ resolver'.calls[s] = Append(resolver.calls[s], ip)
                 /\ \A t \in Entries \ {s} : resolver'.calls[t] = resolver.calls[t]]_vars

C19_Witness ==
    /\ resolver.first["e1"] = "registered"
    /\ "e1" \in resolver.registered
    /\ resolver.calls["e1"] = <<"ip1", "ip2">>
    /\ resolver.seen["e1"] = "ip2"
    /\ resolver.n = 3

\* C20: an announcement of a serial that is not registered calls nothing and
\* is recorded, and a later register_device of that serial has its callback
\* called at once with the recorded address.
C20_UnregisteredAnnouncementRecorded ==
    [][\A s \in Entries :
          /\ \A ip \in Addresses :
                (ResolverAnnounce(s, ip) /\ s \notin resolver.registered)
                    => /\ resolver'.calls = resolver.calls
                       /\ resolver'.seen[s] = ip
          /\ (ResolverRegister(s) /\ resolver.seen[s] # NoIP)
                => resolver'.calls[s] = Append(resolver.calls[s], resolver.seen[s])]_vars

C20_Witness ==
    /\ resolver.first["e2"] = "announced"
    /\ "e2" \in resolver.registered
    /\ resolver.seen["e2"] = "ip2"
    /\ resolver.calls["e2"] = <<"ip2">>
    /\ resolver.n = 2

\* ------------------------------------------------ static-host fallback order
\* The setup coroutine of e is in _try_cloud_api_refresh.
in_cloud(e) == pc[e] \in {"cloud", "cl_call", "cl_conn", "cl_plat"}

\* The setup of e, which fell back from its static host, ends in this step.
FallbackSetupEnds(e) == fb[e] # "no" /\ life[e] = "setup" /\ life'[e] # "setup"

\* C23: when the connect to the static host fails, the cloud API refresh is
\* entered only from the Zeroconf fallback of that setup, never before it;
\* and a fallen-back setup that ends without a connected, stored device has
\* tried the cloud API refresh.
C23_CloudIsLastResort ==
    [][\A e \in Entries :
        /\ (in_cloud(e)' /\ ~in_cloud(e)) => (pc[e] = "starting" /\ fb[e] # "no")
        /\ (FallbackSetupEnds(e) /\ ~(e \in devices' /\ is_connected(conn'[e]))) => in_cloud(e)]_vars

\* The order alone: the cloud API refresh is entered only from the Zeroconf
\* fallback.
CloudOnlyAfterZeroconf ==
    [][\A e \in Entries :
        (in_cloud(e)' /\ ~in_cloud(e)) => (pc[e] = "starting" /\ fb[e] # "no")]_vars

\* ------------------------------------------------- discovery after unload
\* No setup or unload is in progress and every entry that was set up has
\* been unloaded since.
AllUnloaded ==
    \A e \in Entries :
        life[e] = "not_loaded" /\ pc[e] = "idle" /\ result[e] \in {"none", "unloaded", "unload_noop"}

\* Entry e went through connect_with_discovery and has been unloaded.
UnloadedDiscoveryEntry(e) ==
    dref[e] # 0 /\ result[e] \in {"unloaded", "unload_noop"}

\* C29: after every entry that was set up through discovery (static-host
\* entries that fell back to Zeroconf and entries whose device never
\* connected included) has been unloaded, no discovery service is running,
\* DATA_DISCOVERY is None and discovery_count is 0.
C29_DiscoveryStoppedAfterUnload ==
    (AllUnloaded /\ \E e \in Entries : UnloadedDiscoveryEntry(e))
        => (disc = 0 /\ count = 0 /\ \A g \in DiscIds : dstate[g] # "running")

\* ---------------------------------------------------- connect on a device
\* In this step the connection handler calls device.connect for entry e.
ConnectCalled(e) ==
    \/ \E r \in Runners : cb[r].pc = "call" /\ cb'[r].pc = "conn" /\ cb[r].e = e
    \/ pc[e] = "st_call" /\ pc'[e] = "st_conn"
    \/ pc[e] = "cl_call" /\ pc'[e] = "cl_conn"

\* C30: under every interleaving of discovery callbacks, cached-address
\* attempts and static-host setups, the connection handler never calls
\* device.connect while the device reports is_connected true.
C30_NoConnectWhileConnected ==
    [][\A e \in Entries : ConnectCalled(e) => ~is_connected(conn[e])]_vars

\* ------------------------------------------------------ config flow: specs
\* Nothing set up and the pure parts idle.
CoreIdle ==
    /\ LifeIdle
    /\ factory = FactoryIdle
    /\ env = EnvIdle
    /\ session = SessionInit
    /\ store = StoreInit
    /\ resolver = ResolverInit
    /\ codec = CodecIdle
    /\ MgrIdle

InitFlow ==
    /\ CoreIdle
    /\ HaIdle

NextFlow ==
    \/ \E input \in Methods \cup {"none"} : FlowUser(input)
    \/ FlowDiscovery
    \/ \E h \in {NoIP, "ip1"}, pre \in BOOLEAN, creatable \in BOOLEAN : FlowSubmit(h, pre, creatable)
    \/ FlowTick
    \/ \E ip \in FlowAddresses : FlowFound(ip)
    \/ FlowWaitDone
    \/ FlowStopDiscovery
    \/ \E outcome \in {"ok", "DysonInvalidCredential", "DysonException"} : FlowConnect(outcome)
    \/ FlowOver

SpecFlow == InitFlow /\ [][NextFlow]_vars

\* The executor's wait returns, and the coroutine is resumed and runs on.
FlowProgress == FlowTick \/ FlowWaitDone \/ FlowStopDiscovery \/ \E outcome \in {"ok", "DysonInvalidCredential", "DysonException"} : FlowConnect(outcome)

SpecFlowLive == SpecFlow /\ WF_vars(FlowProgress)

\* ------------------------------------------------- config flow: properties
\* The form error the claim names for a failed connection attempt.
expected_error(why) ==
    IF why = "credential" THEN "invalid_auth"
    ELSE IF why = "timeout" THEN "cannot_find" ELSE "cannot_connect"

\* C21: whenever the connection attempt of the wifi, manual or host step
\* failed, the step shows its form again with the error of the cause
\* (invalid_auth, cannot_connect, cannot_find); no exception leaves a step.
C21_FailuresAreFormErrors ==
    /\ flow.result.type # "raised"
    /\ flow.failure # "none" =>
        flow.result = show_form(flow.cur, expected_error(flow.failure))

\* The attempt of a submission without host has ended.
DiscoveryAttemptOver == flow.given = NoIP /\ flow.started = 1 /\ flow.pc = "idle"

\* C22: without a host, the connection attempt waits at most
\* DISCOVERY_TIMEOUT for the discovery callback and then ends; after a
\* timeout CannotFind was raised and connect was not called, after a
\* discovery connect was called once with the discovered address, and in
\* both cases the temporary discovery was stopped exactly once.
C22_DiscoveryWaitEnds ==
    /\ [](flow.t <= DISCOVERY_TIMEOUT /\ flow.stopped <= flow.started)
    /\ [](DiscoveryAttemptOver =>
            /\ flow.stopped = 1
            /\ IF flow.succeed
               THEN flow.set /\ flow.connected_to = <<flow.host>>
               ELSE flow.connected_to = <<>> /\ flow.failure = "timeout"
                    /\ flow.result = show_form(flow.cur, "cannot_find"))
    /\ (flow.pc = "wait") ~> (flow.pc = "idle")

C22_Witness ==
    DiscoveryAttemptOver /\ ~flow.succeed /\ flow.t = DISCOVERY_TIMEOUT /\ flow.set

\* C28: the user step calls exactly one next step for a submitted method,
\* wifi for "wifi", cloud for "cloud", manual for anything else, and shows
\* that step's form; without input it calls none and shows the user form.
C28_UserStepRoutes ==
    /\ flow.method = "none" => (flow.called = <<>> /\ flow.result = show_form("user", "none"))
    /\ flow.method \in Methods =>
        /\ flow.called = <<IF flow.method \in {"wifi", "cloud"} THEN flow.method ELSE "manual">>
        /\ flow.cur = flow.called[1]

C28_Witness ==
    flow.method = "cloud" /\ flow.called = <<"cloud">> /\ flow.result = show_form("cloud", "none")

\* ----------------------------------------------------------- entity hooks
InitEntity ==
    /\ CoreIdle
    /\ HaIdle

NextEntity ==
    \/ \E e \in EntityIds : EntityAdded(e)
    \/ \E e \in EntityIds, raises \in BOOLEAN, kept \in BOOLEAN : EntityWillRemove(e, raises, kept)

SpecEntity == InitEntity /\ [][NextEntity]_vars

\* C24: async_added_to_hass registers the entity's own _on_message at the
\* device and async_will_remove_from_hass asks the device to remove that
\* same callback; the removal hook never lets an exception out, also when
\* remove_message_listener raises; a listener of every entity in hass is
\* registered, and one removed without error is registered no more.
C24_ListenerAttachDetach ==
    /\ \A e \in entity.added : on_message_of(e) \in entity.listeners
    /\ entity.call.name # "none" =>
        /\ entity.call.arg = on_message_of(entity.call.by)
        /\ ~entity.call.escaped
    /\ (entity.call.name = "will_remove" /\ ~entity.call.raised) =>
        entity.call.arg \notin entity.listeners

C24_Witness ==
    /\ entity.call.name = "will_remove"
    /\ entity.call.raised
    /\ entity.call.arg \in entity.listeners
    /\ entity.call.by \notin entity.added

\* -------------------------------------------------- environmental sensors
InitSensor ==
    /\ CoreIdle
    /\ flow = FlowInit
    /\ entity = EntityInit
    /\ sensor \in SensorInputs
    /\ climate = ClimateIdle
    /\ ids = IdsIdle

NextSensor ==
    \/ SensorUpdate
    \/ \E r \in Readings : (r.number \/ r.value = 0) /\ SensorReport(r)

SpecSensor == InitSensor /\ [][NextSensor]_vars

\* The reading is one of the off, init and failed sentinels.
is_sentinel(r) ==
    r.number /\ r.value \in {ENVIRONMENTAL_OFF, ENVIRONMENTAL_INIT, ENVIRONMENTAL_FAIL}

\* C25: an environmental sensor entity that has been read reports
\* available only if its reading is not in the off, init or failed state.
C25_AvailableOnlyWithReading ==
    (sensor.read /\ sensor.available) => ~is_sentinel(sensor.reading)

\* -------------------------------------------------------- entity unique ids
PlatformNames ==
    {"binary_sensor", "button", "camera", "climate", "humidifier", "sensor", "switch", "vacuum"}

InitIds ==
    /\ CoreIdle
    /\ flow = FlowInit
    /\ entity = EntityInit
    /\ sensor = SensorIdle
    /\ climate = ClimateIdle
    /\ ids \in IdsInputs

NextIds == \E p \in PlatformNames : PlatformSetup(p)

SpecIds == InitIds /\ [][NextIds]_vars

InitClimate ==
    /\ CoreIdle
    /\ flow = FlowInit
    /\ entity = EntityInit
    /\ sensor = SensorIdle
    /\ ids = IdsIdle
    /\ climate \in ClimateInputs

NextClimate ==
    \/ ClimateUpdate
    \/ \E mode \in HVACModes : ClimateSetHvacMode(mode)
    \/ \E t \in Temperatures : ClimateSetTemperature(t)
    \/ \E on \in BOOLEAN, mode \in BOOLEAN, status \in BOOLEAN : ClimateReport(on, mode, status)

SpecClimate == InitClimate /\ [][NextClimate]_vars

\* C27: for every combination of is_on, heat_mode_is_on and
\* heat_status_is_on, the mode and the action read together agree: the mode
\* is off exactly when the action is off, and then the device is off; heat
\* exactly when the action is heating (heat status on) or idle (heat status
\* off); cool exactly when the action is cooling.
C27_ModeAndActionAgree ==
    climate.read =>
        /\ (climate.hvac_mode = "off") <=> (climate.hvac_action = "off")
        /\ (climate.hvac_mode = "off") <=> ~climate.is_on
        /\ (climate.hvac_mode = "heat") <=> (climate.hvac_action \in {"heating", "idle"})
        /\ (climate.hvac_mode = "cool") <=> (climate.hvac_action = "cooling")
        /\ (climate.hvac_action = "heating") => climate.heat_status_is_on
        /\ (climate.hvac_action = "idle") => ~climate.heat_status_is_on
        /\ climate.hvac_mode \in HVACModes

C27_Witness ==
    /\ climate.read
    /\ climate.hvac_mode = "heat"
    /\ climate.hvac_action = "idle"
    /\ climate.is_on /\ climate.heat_mode_is_on /\ ~climate.heat_status_is_on

\* --------------------------------------------------- platform setup count
\* In this step async_forward_entry_setups is called for entry e: the device
\* has just been stored by a callback or by a static or cloud connect.
PlatformSetupCalled(e) ==
    \/ \E r \in Runners : cb[r].pc = "conn" /\ cb'[r].pc = "plat" /\ cb[r].e = e
    \/ pc[e] = "st_conn" /\ pc'[e] = "st_plat"
    \/ pc[e] = "cl_conn" /\ pc'[e] = "cl_plat"

\* C31: between the setup of an entry and its unload platform setup is called
\* at most once for the entry (never for an entry whose device is already
\* stored with its platforms forwarded), however often the discovery callback
\* runs.
C31_PlatformSetupOnce ==
    [][\A e \in Entries : PlatformSetupCalled(e) => e \notin devices]_vars

\* ------------------------------------------------ platform setup failure
\* Entry e is in neither store and its device is not connected.
CleanedUp(e) == e \notin devices' /\ e \notin coords' /\ ~is_connected(conn'[e])

NoCachedSuccess(e) ==
    /\ \/ pc[e] = "sleep" /\ e \notin devices /\ device_ips[e] = NoIP
       \/ pc[e] = "cb_cached" /\ cb[e].pc = "F"
    /\ pc'[e] # pc[e]

\* The setup coroutine of e starts a callback for address ip.
AttemptStarted(e, ip) == cb'[e].pc \in {"disc", "call"} /\ cb'[e].h = ip

\* C33 as stated: on a reload whose setup took a preserved address of the
\* serial out of preserved_discovered, once registration and the cached
\* address have not connected the device, a connection attempt to that
\* preserved address follows.
C33_PreservedTriedAfterCache ==
    [][\A e \in Entries :
        (NoCachedSuccess(e) /\ restored[e] # NoIP)
            => (pc'[e] = "cb_pres" /\ AttemptStarted(e, restored[e]))]_vars

\* What the code does instead: the preserved address is moved into the discovery service's
\* table and removed from preserved_discovered before registration, so the
\* attempt to it is the one registration makes; past the wait an attempt to a
\* preserved address follows exactly when preserved_discovered holds the
\* serial at that moment, and otherwise the setup returns True at once.
C33_PreservedTriedAtRegistration ==
    [][\A e \in Entries :
        /\ (pc[e] # "registering" /\ pc'[e] = "registering" /\ restored'[e] # NoIP)
            => (preserved' = NoAddresses /\ discovered'[dref'[e]][e] = restored'[e])
        /\ (pc[e] = "registering" /\ pc'[e] # "registering" /\ restored[e] # NoIP)
            => (pc'[e] = "cb_reg" /\ AttemptStarted(e, discovered[dref[e]][e])
                /\ discovered[dref[e]][e] # NoIP)
        /\ NoCachedSuccess(e)
            => IF preserved[e] # NoIP
               THEN pc'[e] = "cb_pres" /\ AttemptStarted(e, preserved[e])
               ELSE pc'[e] = "idle" /\ result'[e] = "True" /\ cb'[e] = Idle]_vars

\* A reload ended: the setup restored a preserved address of the serial,
\* returned True, and the device is not stored.
ReloadEndedWithoutDevice ==
    \E e \in Entries :
        /\ restored[e] # NoIP /\ preserved[e] = NoIP
        /\ life[e] = "loaded" /\ result[e] = "True" /\ e \notin devices

\* ------------------------------------ ProgressiveDiscoveryManager: specs
InitProg ==
    /\ LifeIdle
    /\ factory = FactoryIdle
    /\ env = EnvIdle
    /\ session = SessionInit
    /\ store = StoreInit
    /\ resolver = ResolverInit
    /\ codec = CodecIdle
    /\ flow = FlowInit
    /\ entity = EntityInit
    /\ sensor = SensorIdle
    /\ climate = ClimateIdle
    /\ ids = IdsIdle
    /\ prog = ProgInit
    /\ reg = RegInit
    /\ platforms = PlatformsIdle

NextProg ==
    \/ \E st \in ProgProductStates, es \in ProgEnvironmentalData : ProgStart(st, es)
    \/ ProgStop
    \/ ProgCleanup
    \/ \E d \in ProgProductStates : ProgMessage("CURRENT-STATE", d)
    \/ \E d \in ProgEnvironmentalData : ProgMessage("ENVIRONMENTAL-CURRENT-SENSOR-DATA", d)
    \/ \E t \in {"STATE-CHANGE", "OTHER"} : ProgMessage(t, {"oscs", "osal"})

SpecProg == InitProg /\ [][NextProg]_vars

\* C34: for every sequence of start_monitoring, stop_monitoring and cleanup
\* (and messages in between) the manager's listener is on the device exactly
\* when the manager is monitoring, and it is never on the device twice.
C34_ListenerIffMonitoring ==
    /\ prog.listeners = (IF prog.monitoring THEN 1 ELSE 0)
    /\ prog.listeners <= 1

\* start_monitoring was called on a manager that was monitoring: the
\* listener is on the device once.
C34_Witness ==
    prog.monitoring /\ prog.op = "start_again" /\ prog.listeners = 1

\* C35: the set of discovered capabilities only grows (a stop and a new
\* start do not reset it), no capability is reported as newly discovered a
\* second time, and a message that arrives while the manager is not
\* monitoring changes neither the set nor the stored last status and
\* environmental data.
C35_CapabilitiesOnlyGrow ==
    /\ [][prog.discovered_capabilities \subseteq prog'.discovered_capabilities]_vars
    /\ [](prog.again = {})
    /\ [][(~prog.monitoring /\ prog'.op = "message")
            => /\ prog'.discovered_capabilities = prog.discovered_capabilities
               /\ prog'.last_status_data = prog.last_status_data
               /\ prog'.last_environmental_data = prog.last_environmental_data]_vars

\* A message reached a stopped manager that had discovered capabilities
\* from both kinds of data.
C35_Witness ==
    /\ ~prog.monitoring /\ prog.op = "message"
    /\ "filter_status" \in prog.discovered_capabilities
    /\ "humidity_sensor" \in prog.discovered_capabilities
    /\ prog.last_status_data # NoData

\* ----------------------------------------------------- config entries: specs
InitReg ==
    /\ LifeIdle
    /\ factory = FactoryIdle
    /\ env = EnvIdle
    /\ session = SessionInit
    /\ store = StoreInit
    /\ resolver = ResolverInit
    /\ codec = CodecIdle
    /\ flow = FlowInit
    /\ entity = EntityInit
    /\ sensor = SensorIdle
    /\ climate = ClimateIdle
    /\ ids = IdsIdle
    /\ prog = ProgInit
    /\ reg = RegInit
    /\ platforms = PlatformsIdle

NextReg ==
    \/ \E s \in Serials, ok \in BOOLEAN : RegWifi(s, ok)
    \/ \E s \in Serials, ok \in BOOLEAN : RegManual(s, ok)
    \/ \E s \in Serials : RegDiscovery(s)
    \/ \E ok \in BOOLEAN : RegHost(ok)
    \/ \E a \in Auths : RegAccount(a)
    \/ \E i \in 0..MaxEntries : RegReauth(i)
    \/ \E o \in {"ok", "DysonInvalidAuth", "DysonNetworkError", "other"} : RegReauthCloud(o)
    \/ \E o \in {"ok", "DysonLoginFailure", "DysonInvalidAuth", "other"}, a \in Auths : RegReauthOtp(o, a)

SpecReg == InitReg /\ [][NextReg]_vars

\* C36: a wifi, manual or discovery (host) flow for a serial that an entry
\* already has as unique id aborts with already_configured without trying a
\* connection, and no two entries are for the same serial.
C36_OneEntryPerSerial ==
    /\ (reg.last.step \in {"wifi", "manual", "discovery", "host"} /\ reg.last.existed)
        => (reg.last.result = "already_configured" /\ ~reg.last.connected)
    /\ \A i, j \in 1..Len(reg.entries) :
        (i # j /\ reg.entries[i].data.serial # NoKey)
            => reg.entries[i].data.serial # reg.entries[j].data.serial

\* C37: a successful OTP step of a reauthentication ends with
\* reauth_successful and changes only CONF_AUTH in the data of the entry
\* being re-authenticated; a failed one changes no entry and shows the OTP
\* form again with an error.
C37_ReauthReplacesOnlyAuth ==
    [][reg.step = "reauth_otp" =>
        \/ /\ reg'.last.result = "reauth_successful"
           /\ Len(reg'.entries) = Len(reg.entries)
           /\ \A i \in 1..Len(reg.entries) :
                IF i = reg.target
                THEN /\ reg'.entries[i].unique_id = reg.entries[i].unique_id
                     /\ reg'.entries[i].data.auth \in Auths
                     /\ \A k \in {"serial", "host", "region"} :
                            reg'.entries[i].data[k] = reg.entries[i].data[k]
                ELSE reg'.entries[i] = reg.entries[i]
        \/ /\ reg'.last.result \in {"form:reauth_otp:invalid_auth", "form:reauth_otp:unknown"}
           /\ reg'.step = "reauth_otp"
           /\ reg'.entries = reg.entries]_vars

\* A reauthentication gave an account entry a new auth info while another
\* entry exists.
C37_Witness ==
    /\ reg.last.step = "reauth_otp" /\ reg.last.result = "reauth_successful"
    /\ \E i \in 1..Len(reg.entries) :
        reg.entries[i].data.auth = "a2" /\ reg.entries[i].data.region = "US"
    /\ \E i \in 1..Len(reg.entries) : reg.entries[i].data.serial = "s1"
    /\ \A i \in 1..Len(reg.entries) : reg.entries[i].data.auth # "a1"

\* ------------------------------------------------------- set_temperature
\* C38: set_temperature with an integer Celsius target t sends
\* set_heat_target(clamp(t, 1, 37) + 273): the commanded kelvin value lies in
\* 274..310 and target_temperature of that heat target is clamp(t, 1, 37);
\* set_temperature without a temperature sends nothing.
C38_SetTemperatureClamps ==
    (climate.asked # NotAsked) =>
        IF climate.asked.number
        THEN /\ Len(climate.calls) = 2
             /\ climate.calls[1] = "set_heat_target"
             /\ climate.calls[2] \in 274..310
             /\ LET t == climate.asked.value
                    c == target_temperature(climate.calls[2])
                IN /\ (t < 1) => c = 1
                   /\ (t > 37) => c = 37
                   /\ (t \in 1..37) => c = t
        ELSE climate.calls = <<>>

\* A target above the range was asked for and 310 K commanded.
C38_Witness ==
    /\ climate.asked.number /\ climate.asked.value = 38
    /\ climate.calls = <<"set_heat_target", 310>>

\* --------------------------------------- get_platforms_for_device: specs
InitPlatforms ==
    /\ LifeIdle
    /\ factory = FactoryIdle
    /\ env = EnvIdle
    /\ session = SessionInit
    /\ store = StoreInit
    /\ resolver = ResolverInit
    /\ codec = CodecIdle
    /\ flow = FlowInit
    /\ entity = EntityInit
    /\ sensor = SensorIdle
    /\ climate = ClimateIdle
    /\ ids = IdsIdle
    /\ prog = ProgInit
    /\ reg = RegInit
    /\ platforms \in PlatformsInputs

NextPlatforms == GetPlatforms

SpecPlatforms == InitPlatforms /\ [][NextPlatforms]_vars

\* How often name is in list.
occurrences(list, name) == Cardinality({i \in 1..Len(list) : list[i] = name})

\* C39: the list get_platforms_for_device returns has no platform twice: it
\* is binary_sensor, sensor, vacuum for the vacuums, and for every other
\* device fan, select, sensor, switch followed by each of climate,
\* binary_sensor, humidifier, button and number at most once.
C39_NoDuplicatePlatforms ==
    (platforms.result # NoList) =>
        LET r == platforms.result IN
        /\ \A i, j \in 1..Len(r) : i # j => r[i] # r[j]
        /\ IF platforms.device.device_type \in VacuumTypes
           THEN r = <<"binary_sensor", "sensor", "vacuum">>
           ELSE /\ SubSeq(r, 1, 4) = <<"fan", "select", "sensor", "switch">>
                /\ \A n \in {"climate", "binary_sensor", "humidifier", "button", "number"} :
                        occurrences(r, n) <= 1
                /\ \A i \in 5..Len(r) :
                        r[i] \in {"climate", "binary_sensor", "humidifier", "button", "number"}

\* ------------------------------------------------- unload of a missing entry
\* The unload of loaded entry e starts in this step and e is not in
\* DATA_DEVICES.
UnloadOfMissing(e) ==
    life[e] = "loaded" /\ pc[e] = "idle" /\ e \notin devices /\ life'[e] # "loaded"

\* C40: unloading an entry that is not in DATA_DEVICES returns True at once
\* and does nothing else: no disconnect, discovery_count and the discovery
\* service as they were, DATA_DEVICES and DATA_COORDINATORS unchanged.
C40_UnloadOfMissingIsNoop ==
    [][\A e \in Entries :
        UnloadOfMissing(e) =>
            /\ result'[e] = "unload_noop" /\ life'[e] = "not_loaded" /\ pc'[e] = "idle"
            /\ UNCHANGED <<devices, coords, count, disc, dstate, registered, preserved, conn>>]_vars

\* An entry set up through discovery whose device never connected has been
\* unloaded while the discovery service is counted as used.
C40_Witness ==
    \E e \in Entries :
        /\ result[e] = "unload_noop" /\ life[e] = "not_loaded"
        /\ e \notin devices /\ count > 0 /\ disc # 0

====
